---- MODULE Spec2Model ----
(***************************************************************************)
(* A model of the game_lang interpreter: the compiler's lexer wrapper, the *)
(* single-pass Pratt parser that emits bytecode, the code chunk, the       *)
(* object heap with its interner and globals table, the stack VM and the   *)
(* command-line driver (file and REPL modes).                              *)
(*                                                                         *)
(* Conventions                                                             *)
(*  - A string (EcoString, &str) is a sequence of one-character strings,   *)
(*    so that slicing, length and concatenation are those of the code.    *)
(*  - Option<T> is a sequence of length at most one: <<>> is None and      *)
(*    <<x>> is Some(x).                                                    *)
(*  - A source text is the sequence of the tokens logos yields for it.     *)
(*    The span of token i is modelled by its index i (1-based); 0 is the   *)
(*    empty span 0..0 before the first token and Len+1 the empty span at   *)
(*    the end of the input.                                                *)
(*  - f64 is modelled by the extended rationals n/d in lowest terms, with  *)
(*    1/0 and -1/0 for the infinities and 0/0 for NaN (no rounding, no     *)
(*    signed zero).                                                        *)
(*  - An ObjectKey of the slot map is the index of its slot (1-based);     *)
(*    nothing is ever removed from the slot map.                           *)
(***************************************************************************)
EXTENDS Integers, Sequences, FiniteSets, TLC

None == <<>>
Some(x) == <<x>>

Min(a, b) == IF a <= b THEN a ELSE b

(***************************************************************************)
(* bytecode/opcodes.rs                                                     *)
(***************************************************************************)
OP_RETURN == 0
OP_CONSTANT == 1
OP_NEG == 2
OP_ADD == 3
OP_SUB == 4
OP_MUL == 5
OP_DIV == 6
OP_FALSE == 7
OP_TRUE == 8
OP_NOT == 9
OP_AND == 10
OP_OR == 11
OP_EQUAL == 12
OP_GREATER == 13
OP_LESS == 14
OP_NIL == 15
OP_PRINT == 16
OP_POP == 17
OP_DEF_GLOBAL == 18
OP_GET_GLOBAL == 19
OP_SET_GLOBAL == 20
OP_GET_LOCAL == 21
OP_SET_LOCAL == 22
OP_JUMP == 23
OP_JUMP_F == 24

U8 == 256
U16 == 65536

(***************************************************************************)
(* bytecode/value.rs: Value and its operations.  An operation returns      *)
(* [ok, value, heap]: ok = "Ok", or the name of the error it failed with.  *)
(***************************************************************************)
Nil == [t |-> "Nil"]
Bool(b) == [t |-> "Bool", b |-> b]
Object(k) == [t |-> "Object", key |-> k]

Abs(n) == IF n < 0 THEN -n ELSE n
Sign(n) == IF n < 0 THEN -1 ELSE IF n = 0 THEN 0 ELSE 1

RECURSIVE Gcd(_, _)
Gcd(a, b) == IF b = 0 THEN a ELSE Gcd(b, a % b)

\* the f64 n/d: lowest terms, d >= 0; d = 0 for the infinities and NaN
F64(n, d) ==
    IF d = 0 THEN [t |-> "Number", n |-> Sign(n), d |-> 0]
    ELSE LET g == Gcd(Abs(n), Abs(d))
         IN [t |-> "Number", n |-> Sign(d) * (n \div g), d |-> Abs(d) \div g]

Number(n) == F64(n, 1)
NaN == F64(0, 0)
IsNaN(x) == x.n = 0 /\ x.d = 0

f64_neg(x) == F64(-x.n, x.d)
f64_add(x, y) ==
    IF x.d = 0 /\ y.d = 0
    THEN (IF x.n = y.n THEN x ELSE NaN)
    ELSE F64(x.n * y.d + y.n * x.d, x.d * y.d)
f64_mul(x, y) == F64(x.n * y.n, x.d * y.d)
f64_recip(y) ==
    IF IsNaN(y) THEN NaN
    ELSE IF y.d = 0 THEN F64(0, 1)
    ELSE IF y.n = 0 THEN F64(1, 0)
    ELSE F64(Sign(y.n) * y.d, Abs(y.n))
f64_sub(x, y) == f64_add(x, f64_neg(y))
f64_div(x, y) == f64_mul(x, f64_recip(y))
f64_eq(x, y) == ~IsNaN(x) /\ ~IsNaN(y) /\ x = y
f64_lt(x, y) ==
    /\ ~IsNaN(x) /\ ~IsNaN(y)
    /\ IF x.d = 0 /\ y.d = 0 THEN x.n < y.n ELSE x.n * y.d < y.n * x.d

\* a falsiness that takes the number 0 for false as well
is_falsey_or_zero(v) == v = Nil \/ v = Bool(FALSE) \/ v = F64(0, 1)

is_falsey(v) == v = Nil \/ v = Bool(FALSE)

ValueOk(v, heap) == [ok |-> "Ok", value |-> v, heap |-> heap]
ValueErr(e, heap) == [ok |-> e, value |-> Nil, heap |-> heap]
UnSupportedOperation == "UnSupportedOperation"

(***************************************************************************)
(* bytecode/object.rs: ObjectHeap                                          *)
(***************************************************************************)
ObjectHeap_new ==
    [heap |-> <<>>, interner |-> <<>>, globals |-> <<>>, dynamic_memory_used |-> 0]

\* a map with one entry inserted or overwritten (HashMap::insert)
MapInsert(m, k, v) == [x \in DOMAIN m \cup {k} |-> IF x = k THEN v ELSE m[x]]

\* an allocation that leaves the byte counter as it is
inner_heap_alloc_uncounted(h, obj) ==
    [heap |-> [h EXCEPT !.heap = Append(@, obj)],
     key |-> Len(h.heap) + 1]

\* returns [heap, key]: the heap with the object in a fresh slot, and its key
inner_heap_alloc(h, obj) ==
    [heap |-> [h EXCEPT !.heap = Append(@, obj),
                        !.dynamic_memory_used = @ + Len(obj.String)],
     key |-> Len(h.heap) + 1]

alloc_object(h, obj) == inner_heap_alloc(h, obj)

\* an interner that never looks the string up: every call allocates
intern_string_without_lookup(h, string) ==
    LET a == inner_heap_alloc(h, [String |-> string])
    IN [heap |-> [a.heap EXCEPT !.interner = MapInsert(@, string, a.key)],
        key |-> a.key]

\* returns [heap, key]
intern_string(h, string) ==
    IF string \in DOMAIN h.interner
    THEN [heap |-> h, key |-> h.interner[string]]
    ELSE LET a == inner_heap_alloc(h, [String |-> string])
         IN [heap |-> [a.heap EXCEPT !.interner = MapInsert(@, string, a.key)],
             key |-> a.key]

\* the assert!: the identifier is the key of a String object of the heap
put_as_global_asserts(h, identifier) == identifier \in DOMAIN h.heap

\* a globals table whose insert keeps the binding a name already has
put_as_global_keeping_bound(h, identifier, object) ==
    IF identifier \in DOMAIN h.globals THEN h
    ELSE [h EXCEPT !.globals = MapInsert(@, identifier, object)]

put_as_global(h, identifier, object) ==
    [h EXCEPT !.globals = MapInsert(@, identifier, object)]

\* a lookup that reads an unbound global as nil
get_global_defaulting_to_nil(h, identifier) ==
    IF identifier \in DOMAIN h.globals THEN Some(h.globals[identifier]) ELSE Some(Nil)

\* Result<Value, HeapError> as an Option: None is GlobalVariableNotFound
get_global(h, identifier) ==
    IF identifier \in DOMAIN h.globals THEN Some(h.globals[identifier]) ELSE None

\* Result<&Object, HeapError> as an Option: None is ObjectNotFound
get_object(h, key) ==
    IF key \in DOMAIN h.heap THEN Some(h.heap[key]) ELSE None

live_count(h) == Len(h.heap)
dynamic_memory_used(h) == h.dynamic_memory_used

(***************************************************************************)
(* bytecode/value.rs, continued                                            *)
(***************************************************************************)
value_neg(a, heap) ==
    IF a.t = "Number" THEN ValueOk(f64_neg(a), heap)
    ELSE ValueErr(UnSupportedOperation, heap)

\* an ADD that allocates the concatenation without interning it
value_add_without_interning(a, b, heap) ==
    IF a.t = "Number" /\ b.t = "Number" THEN ValueOk(f64_add(a, b), heap)
    ELSE IF a.t = "Object" /\ b.t = "Object"
    THEN LET oa == get_object(heap, a.key)
             ob == get_object(heap, b.key)
         IN IF oa = None \/ ob = None THEN ValueErr("ObjectNotFound", heap)
            ELSE LET joined_string == oa[1].String \o ob[1].String
                     i == alloc_object(heap, [String |-> joined_string])
                 IN ValueOk(Object(i.key), i.heap)
    ELSE ValueErr(UnSupportedOperation, heap)

value_add(a, b, heap) ==
    IF a.t = "Number" /\ b.t = "Number" THEN ValueOk(f64_add(a, b), heap)
    ELSE IF a.t = "Object" /\ b.t = "Object"
    THEN LET oa == get_object(heap, a.key)
             ob == get_object(heap, b.key)
         IN IF oa = None \/ ob = None THEN ValueErr("ObjectNotFound", heap)
            ELSE LET joined_string == oa[1].String \o ob[1].String
                     i == intern_string(heap, joined_string)
                 IN ValueOk(Object(i.key), i.heap)
    ELSE ValueErr(UnSupportedOperation, heap)

value_sub(a, b, heap) ==
    IF a.t = "Number" /\ b.t = "Number" THEN ValueOk(f64_sub(a, b), heap)
    ELSE ValueErr(UnSupportedOperation, heap)

value_mul(a, b, heap) ==
    IF a.t = "Number" /\ b.t = "Number" THEN ValueOk(f64_mul(a, b), heap)
    ELSE ValueErr(UnSupportedOperation, heap)

value_div(a, b, heap) ==
    IF a.t = "Number" /\ b.t = "Number" THEN ValueOk(f64_div(a, b), heap)
    ELSE ValueErr(UnSupportedOperation, heap)

value_not(a, heap) ==
    IF a.t = "Bool" THEN ValueOk(Bool(~a.b), heap)
    ELSE IF a.t = "Nil" THEN ValueOk(Bool(TRUE), heap)
    ELSE ValueErr(UnSupportedOperation, heap)

\* an AND that takes any operands by their truthiness
value_and_by_truthiness(a, b, heap) ==
    ValueOk(Bool(~is_falsey(a) /\ ~is_falsey(b)), heap)

value_and(a, b, heap) ==
    IF a.t = "Bool" /\ b.t = "Bool" THEN ValueOk(Bool(a.b /\ b.b), heap)
    ELSE ValueErr(UnSupportedOperation, heap)

\* an OR that takes any operands by their truthiness
value_or_by_truthiness(a, b, heap) ==
    ValueOk(Bool(~is_falsey(a) \/ ~is_falsey(b)), heap)

value_or(a, b, heap) ==
    IF a.t = "Bool" /\ b.t = "Bool" THEN ValueOk(Bool(a.b \/ b.b), heap)
    ELSE ValueErr(UnSupportedOperation, heap)

value_equal(a, b, heap) ==
    IF a.t = "Number" /\ b.t = "Number" THEN ValueOk(Bool(f64_eq(a, b)), heap)
    ELSE IF a.t = "Bool" /\ b.t = "Bool" THEN ValueOk(Bool(a.b = b.b), heap)
    ELSE IF a.t = "Nil" /\ b.t = "Nil" THEN ValueOk(Bool(TRUE), heap)
    ELSE IF a.t = "Object" /\ b.t = "Object" THEN ValueOk(Bool(a.key = b.key), heap)
    ELSE ValueErr(UnSupportedOperation, heap)

value_greater(a, b, heap) ==
    IF a.t = "Number" /\ b.t = "Number" THEN ValueOk(Bool(f64_lt(b, a)), heap)
    ELSE ValueErr(UnSupportedOperation, heap)

value_less(a, b, heap) ==
    IF a.t = "Number" /\ b.t = "Number" THEN ValueOk(Bool(f64_lt(a, b)), heap)
    ELSE ValueErr(UnSupportedOperation, heap)

\* Display of a Value that is not an Object (an f64 that is not an
\* integer is left as it is)
RECURSIVE NatDigits(_)
NatDigits(n) ==
    LET d == <<"0", "1", "2", "3", "4", "5", "6", "7", "8", "9">>
    IN IF n < 10 THEN <<d[n + 1]>> ELSE NatDigits(n \div 10) \o <<d[(n % 10) + 1]>>

Display(v) ==
    IF v.t = "Nil" THEN <<"n", "i", "l">>
    ELSE IF v.t = "Bool"
    THEN (IF v.b THEN <<"t", "r", "u", "e">> ELSE <<"f", "a", "l", "s", "e">>)
    ELSE IF v.d = 1
    THEN (IF v.n < 0 THEN <<"-">> ELSE <<>>) \o NatDigits(Abs(v.n))
    ELSE IF v.d = 0
    THEN (IF v.n = 0 THEN <<"N", "a", "N">>
          ELSE (IF v.n < 0 THEN <<"-">> ELSE <<>>) \o <<"i", "n", "f">>)
    ELSE <<v>>

\* what PRINT writes: Display of ValueHeapDisplay, [panic, text] (the
\* unwrap panics on a key that is not in the heap)
print_with_heap(v, heap) ==
    IF v.t = "Object"
    THEN (IF get_object(heap, v.key) = None THEN [panic |-> TRUE, text |-> <<>>]
          ELSE [panic |-> FALSE, text |-> get_object(heap, v.key)[1].String])
    ELSE [panic |-> FALSE, text |-> Display(v)]

(***************************************************************************)
(* bytecode/chunk.rs: CodeChunk                                            *)
(***************************************************************************)
CodeChunk_new == [code |-> <<>>, constants |-> <<>>, span_info |-> << <<0, 0>> >>]

push_code(c, byte) == [c EXCEPT !.code = Append(@, byte)]

\* a pool without a limit: the index wraps and nothing panics
push_constant_unchecked(c, constant) ==
    [chunk |-> [c EXCEPT !.constants = Append(@, constant)],
     index |-> Len(c.constants) % U8,
     panic |-> FALSE]

\* returns [chunk, index, panic]: try_into::<u8>().expect(..) panics once
\* the pool holds more than 256 constants
push_constant(c, constant) ==
    LET n == Len(c.constants) + 1
    IN [chunk |-> [c EXCEPT !.constants = Append(@, constant)],
        index |-> (n - 1) % U8,
        panic |-> n - 1 >= U8]

push_span_info(c, span) == [c EXCEPT !.span_info = Append(@, <<Len(c.code), span>>)]

\* offsets are 0-based as in the code
get_byte(c, offset) ==
    IF offset >= 0 /\ offset < Len(c.code) THEN Some(c.code[offset + 1]) ELSE None

get_constant(c, constant) ==
    IF constant >= 0 /\ constant < Len(c.constants)
    THEN Some(c.constants[constant + 1]) ELSE None

\* panics (index out of bounds) outside the code
patch(c, offset, byte) == [c EXCEPT !.code[offset + 1] = byte]

size(c) == Len(c.code)

\* slice::partition_point on a partitioned slice: the number of leading
\* elements that satisfy the predicate; Holds is the set of indices that do
PartitionPoint(len, Holds) ==
    IF \A i \in 1..len : i \in Holds THEN len
    ELSE (CHOOSE i \in 1..len : i \notin Holds /\ \A j \in 1..(i - 1) : j \in Holds) - 1

\* a partition by `i < offset` in place of `i <= offset`
find_span_offset_of_strict(c, offset) ==
    PartitionPoint(Len(c.span_info),
                   {i \in 1..Len(c.span_info) : c.span_info[i][1] < offset})

find_span_offset_of(c, offset) ==
    PartitionPoint(Len(c.span_info),
                   {i \in 1..Len(c.span_info) : c.span_info[i][1] <= offset})

\* the entry span_info[span_offset - 1] (0-based), or None where that index
\* underflows
find_span_of(c, offset) ==
    LET span_offset == find_span_offset_of(c, offset)
    IN IF span_offset = 0 THEN None ELSE Some(c.span_info[span_offset])

(***************************************************************************)
(* compiler/lexer.rs: the Lexer wrapper around the logos lexer.            *)
(* source is the sequence of lexemes [kind, slice]; pos counts the tokens  *)
(* the inner lexer has produced (Len(source)+1 once it has returned None); *)
(* peeked is the Option<Option<Token>>.  A Token is its kind.              *)
(***************************************************************************)
Lexer_lex(source) == [source |-> source, pos |-> 0, peeked |-> None]

slice(lx) ==
    IF lx.pos >= 1 /\ lx.pos <= Len(lx.source) THEN lx.source[lx.pos].slice ELSE <<>>

span(lx) == lx.pos

\* returns [lexer, token]: logos' next, an unrecognised character being
\* the Error token of the source
next_unwrapped(lx) ==
    LET pos == Min(lx.pos + 1, Len(lx.source) + 1)
    IN [lexer |-> [lx EXCEPT !.pos = pos],
        token |-> IF pos <= Len(lx.source) THEN Some(lx.source[pos].kind) ELSE None]

\* returns [lexer, token]
peek(lx) ==
    IF lx.peeked # None
    THEN [lexer |-> lx, token |-> lx.peeked[1]]
    ELSE LET n == next_unwrapped(lx)
         IN [lexer |-> [n.lexer EXCEPT !.peeked = Some(n.token)], token |-> n.token]

\* a next that leaves a peeked token aside and reads on
next_skipping_peeked(lx) ==
    IF lx.peeked # None
    THEN next_unwrapped([lx EXCEPT !.peeked = None])
    ELSE next_unwrapped(lx)

\* returns [lexer, token]
next(lx) ==
    IF lx.peeked # None
    THEN [lexer |-> [lx EXCEPT !.peeked = None], token |-> lx.peeked[1]]
    ELSE next_unwrapped(lx)

(***************************************************************************)
(* compiler/parser.rs: Locals                                              *)
(***************************************************************************)
Locals_new == [stack |-> <<>>, depth |-> 0]

\* Option<u8>: the 0-based position of the last entry with that name
find_local(locals, identifier) ==
    LET hits == {i \in 1..Len(locals.stack) : locals.stack[i][1] = identifier}
    IN IF hits = {} THEN None
       ELSE Some(((CHOOSE i \in hits : \A j \in hits : j <= i) - 1) % U8)

\* returns [locals, pushed]
push_local(locals, identifier) ==
    IF Len(locals.stack) >= 256
    THEN [locals |-> locals, pushed |-> FALSE]
    ELSE [locals |-> [locals EXCEPT !.stack = Append(@, <<identifier, locals.depth>>)],
          pushed |-> TRUE]

\* returns [locals, panic]: depth is a u8, and += 1 on 255 panics in a build
\* with overflow checks and wraps to 0 in one without
enter_scope(locals, overflow_checks) ==
    IF locals.depth + 1 >= U8
    THEN [locals |-> [locals EXCEPT !.depth = 0], panic |-> overflow_checks]
    ELSE [locals |-> [locals EXCEPT !.depth = @ + 1], panic |-> FALSE]

\* returns [locals, dropped, panic]
exit_scope(locals, overflow_checks) ==
    LET len == Len(locals.stack)
        partition_point ==
            PartitionPoint(len, {i \in 1..len : locals.stack[i][2] < locals.depth})
    IN [locals |-> [stack |-> SubSeq(locals.stack, 1, partition_point),
                    depth |-> (locals.depth - 1) % U8],
        dropped |-> (len - partition_point) % U8,
        panic |-> locals.depth = 0 /\ overflow_checks]

(***************************************************************************)
(* compiler/parser.rs: Parser.  A parser p is [lexer, code, heap, locals,  *)
(* overflow_checks, notes]; overflow_checks is the build's profile and     *)
(* notes is a record the code does not have: what the compiler knew when   *)
(* it emitted the code (see Notes_new).  A Result<(), ParsingError> is     *)
(* [p, err] with err an Option; a panic unwinds like an error and is the   *)
(* error PanicError.                                                       *)
(***************************************************************************)
\* blocks: for every compiled block {..}, the code offsets [entry, exit] of
\*         its first instruction and of the instruction after its last one
\*         (after the POPs of a block statement's scope exit);
\* decls:  for every local pushed on Locals, [at, slot]: the code offset
\*         after its initialiser and its position in Locals;
\* live:   the index in decls of every entry of Locals.stack, in order;
\* uses:   for every emitted GET_LOCAL/SET_LOCAL, [at, decl]: the offset of
\*         the opcode and the index in decls of the local it resolved to.
Notes_new == [blocks |-> <<>>, decls |-> <<>>, live |-> <<>>, uses |-> <<>>]

ParsingError_at(sp, msg) == [msg |-> msg, span |-> sp]
PanicError == ParsingError_at(0, "panic")

Ok(p) == [p |-> p, err |-> None]
Err(p, e) == [p |-> p, err |-> Some(e)]

error_at_current(p, msg) == ParsingError_at(span(p.lexer), msg)

\* self.lexer.peek() on the parser: the token, and the parser afterwards
Peek(p) == peek(p.lexer).token
AfterPeek(p) == [p EXCEPT !.lexer = peek(p.lexer).lexer]
\* the token peek() returned, read back from the peek buffer of a parser
\* that has peeked
Peeked(p) == p.lexer.peeked[1]
AfterNext(p) == [p EXCEPT !.lexer = next(p.lexer).lexer]
Emit(p, byte) == [p EXCEPT !.code = push_code(@, byte)]
EmitAll(p, bytes) == [p EXCEPT !.code.code = @ \o bytes]

\* consume, from its comparison on (p has peeked)
consume_peeked(p, token) ==
    IF Peeked(p) = token THEN Ok(AfterNext(p))
    ELSE Err(p, error_at_current(p, <<"Expected", token, "got", Peeked(p)>>))

consume(p, token) == consume_peeked(AfterPeek(p), token)

\* expect, from its comparison on (p has peeked)
expect_peeked(p, token) ==
    IF Peeked(p) = token THEN Ok(p)
    ELSE Err(p, error_at_current(p, <<"Expected", token, "got", Peeked(p)>>))

expect(p, token) == expect_peeked(AfterPeek(p), token)

consume_some(p, token) == consume(p, Some(token))
expect_some(p, token) == expect(p, Some(token))

\* returns [p, index, panic]
push_string_constant(p, string) ==
    LET obj == intern_string(p.heap, string)
        pc == push_constant(push_span_info(p.code, span(p.lexer)), Object(obj.key))
    IN [p |-> [p EXCEPT !.code = pc.chunk, !.heap = obj.heap],
        index |-> pc.index, panic |-> pc.panic]

emit_constant(p, value) ==
    LET pc == push_constant(push_span_info(p.code, span(p.lexer)), value)
    IN IF pc.panic THEN Err([p EXCEPT !.code = pc.chunk], PanicError)
       ELSE Ok(EmitAll([p EXCEPT !.code = pc.chunk], <<OP_CONSTANT, pc.index>>))

\* the two push_code of emit_global_definition, constant being what
\* push_string_constant returned
emit_definition(constant) ==
    IF constant.panic THEN Err(constant.p, PanicError)
    ELSE Ok(EmitAll(constant.p, <<OP_DEF_GLOBAL, constant.index>>))

\* a definition that also binds the name to nil while compiling
emit_global_definition_binding(p, identifier) ==
    LET c == push_string_constant(p, identifier)
    IN emit_definition([c EXCEPT !.p.heap = put_as_global(c.p.heap,
                                                          c.p.heap.interner[identifier], Nil)])

emit_global_definition(p, identifier) ==
    emit_definition(push_string_constant(p, identifier))

\* returns [p, offset]
emit_jump(p, instr) ==
    [p |-> EmitAll(p, <<instr, 255, 255>>), offset |-> size(p.code) + 3 - 2]

\* a patch_jump without the range check: the distance is truncated to 16 bits
patch_jump_truncating(p, offset, to) ==
    LET relative_jump == (to - offset - 2) % U16
    IN Ok([p EXCEPT !.code = patch(patch(@, offset, relative_jump \div U8),
                                   offset + 1, relative_jump % U8)])

patch_jump(p, offset, to) ==
    LET relative_jump == to - offset - 2
    IN IF relative_jump >= U16 THEN Err(p, error_at_current(p, "Jump too long"))
       ELSE Ok([p EXCEPT !.code = patch(patch(@, offset, relative_jump \div U8),
                                        offset + 1, relative_jump % U8)])

infix_bp(token) ==
    IF token = "Or" THEN Some(<<4, 5>>)
    ELSE IF token = "And" THEN Some(<<6, 7>>)
    ELSE IF token \in {"Eq", "Neq", "Geq", "Leq", "Le", "Gr"} THEN Some(<<10, 11>>)
    ELSE IF token \in {"Add", "Sub"} THEN Some(<<15, 16>>)
    ELSE IF token \in {"Mul", "Div"} THEN Some(<<17, 18>>)
    ELSE None

\* Option<((), u8)>: the right binding power
prefix_bp(token) ==
    IF token = "Sub" THEN Some(25)
    ELSE IF token = "Not" THEN Some(25)
    ELSE None

\* str::parse::<f64> on a slice matching [0-9]+\.?[0-9]*
DigitValue(c) ==
    CASE c = "0" -> 0 [] c = "1" -> 1 [] c = "2" -> 2 [] c = "3" -> 3 [] c = "4" -> 4
      [] c = "5" -> 5 [] c = "6" -> 6 [] c = "7" -> 7 [] c = "8" -> 8 [] c = "9" -> 9

RECURSIVE DigitsValue(_)
DigitsValue(s) ==
    IF s = <<>> THEN 0
    ELSE 10 * DigitsValue(SubSeq(s, 1, Len(s) - 1)) + DigitValue(s[Len(s)])

RECURSIVE Pow10(_)
Pow10(k) == IF k = 0 THEN 1 ELSE 10 * Pow10(k - 1)

parse_f64(s) ==
    LET dots == {i \in 1..Len(s) : s[i] = "."}
    IN IF dots = {} THEN F64(DigitsValue(s), 1)
       ELSE LET dot == CHOOSE i \in dots : TRUE
                int == SubSeq(s, 1, dot - 1)
                frac == SubSeq(s, dot + 1, Len(s))
            IN F64(DigitsValue(int \o frac), Pow10(Len(frac)))

\* self.lexer.next() after a call that has returned r
then_next(r) == IF r.err # None THEN r ELSE Ok(AfterNext(r.p))

number(p) == then_next(emit_constant(p, parse_f64(slice(p.lexer))))

\* string(), id being what intern_string returned
string_constant(p, id) == emit_constant([p EXCEPT !.heap = id.heap], Object(id.key))

string(p) ==
    then_next(string_constant(
        p, intern_string(p.heap, SubSeq(slice(p.lexer), 2, Len(slice(p.lexer)) - 1))))

\* returns [p, name]
identifier(p) == [p |-> AfterNext(p), name |-> slice(AfterNext(p).lexer)]

\* an encoding that takes `>=` and `<=` for `>` and `<`
InfixCode_strict(op) ==
    CASE op = "Add" -> <<OP_ADD>>
      [] op = "Sub" -> <<OP_SUB>>
      [] op = "Mul" -> <<OP_MUL>>
      [] op = "Div" -> <<OP_DIV>>
      [] op = "Eq" -> <<OP_EQUAL>>
      [] op = "Neq" -> <<OP_EQUAL, OP_NOT>>
      [] op = "Gr" -> <<OP_GREATER>>
      [] op = "Le" -> <<OP_LESS>>
      [] op = "Geq" -> <<OP_GREATER>>
      [] op = "Leq" -> <<OP_LESS>>
      [] op = "And" -> <<OP_AND>>
      [] op = "Or" -> <<OP_OR>>
      [] OTHER -> <<>>

\* the bytes an infix operator token emits
InfixCode(op) ==
    CASE op = "Add" -> <<OP_ADD>>
      [] op = "Sub" -> <<OP_SUB>>
      [] op = "Mul" -> <<OP_MUL>>
      [] op = "Div" -> <<OP_DIV>>
      [] op = "Eq" -> <<OP_EQUAL>>
      [] op = "Neq" -> <<OP_EQUAL, OP_NOT>>
      [] op = "Gr" -> <<OP_GREATER>>
      [] op = "Le" -> <<OP_LESS>>
      [] op = "Geq" -> <<OP_LESS, OP_NOT>>
      [] op = "Leq" -> <<OP_GREATER, OP_NOT>>
      [] op = "And" -> <<OP_AND>>
      [] op = "Or" -> <<OP_OR>>
      [] OTHER -> <<>>

PrefixCode(op) ==
    CASE op = "Sub" -> <<OP_NEG>>
      [] op = "Not" -> <<OP_NOT>>
      [] OTHER -> <<>>

\* the use of a local is noted with the declaration it resolved to
NoteUse(p, slot) ==
    [p EXCEPT !.notes.uses = Append(@, [at |-> size(p.code), decl |-> p.notes.live[slot + 1]])]

\* `r?` followed by consume_some(token)?
then_consume_some(r, token) == IF r.err # None THEN r ELSE consume_some(r.p, token)

\* `r?` followed by push_code of each of the bytes
then_emit(r, bytes) == IF r.err # None THEN r ELSE Ok(EmitAll(r.p, bytes))

\* `r?` followed by push_span_info(op_span) and push_code of each of the bytes
\* an operator emitted without a span entry of its own
then_span_emit_without_span(r, op_span, bytes) ==
    IF r.err # None THEN r ELSE Ok(EmitAll(r.p, bytes))

then_span_emit(r, op_span, bytes) ==
    IF r.err # None THEN r
    ELSE Ok(EmitAll([r.p EXCEPT !.code = push_span_info(@, op_span)], bytes))

\* (set, get, arg) of the Identifier arm as [p, local, arg, panic]: local
\* says whether find_local resolved the name, c is what push_string_constant
\* would return
access_of(p, maybe_local, c) ==
    IF maybe_local # None
    THEN [p |-> p, local |-> TRUE, arg |-> maybe_local[1], panic |-> FALSE]
    ELSE [p |-> c.p, local |-> FALSE, arg |-> c.index, panic |-> c.panic]

resolve(id) ==
    access_of(id.p, find_local(id.p.locals, id.name), push_string_constant(id.p, id.name))

\* push_code(set or get); push_code(arg)
emit_access(p, t, local_op, global_op) ==
    IF t.local THEN EmitAll(NoteUse(p, t.arg), <<local_op, t.arg>>)
    ELSE EmitAll(p, <<global_op, t.arg>>)

then_emit_set(r, t) ==
    IF r.err # None THEN r ELSE Ok(emit_access(r.p, t, OP_SET_LOCAL, OP_SET_GLOBAL))

RECURSIVE expression_bp(_, _)
RECURSIVE expression_loop(_, _)

\* the Identifier arm after its peek for `=` (p has peeked)
expression_identifier_peeked(p, t, min_bp) ==
    IF Peeked(p) = Some("Assign")
    THEN (IF min_bp > 0
          THEN Err(AfterNext(p),
                   error_at_current(AfterNext(p), "Invalid left side of assignment"))
          ELSE then_emit_set(expression_bp(AfterNext(p), 0), t))
    ELSE Ok(emit_access(p, t, OP_GET_LOCAL, OP_GET_GLOBAL))

expression_identifier(t, min_bp) ==
    IF t.panic THEN Err(t.p, PanicError)
    ELSE expression_identifier_peeked(AfterPeek(t.p), t, min_bp)

\* the literals false, true, nil
expression_literal(p, opcode) ==
    Ok(Emit([p EXCEPT !.code = push_span_info(@, span(p.lexer))], opcode))

\* the first match of expression_bp: a primary or a prefix operator (p has
\* peeked)
expression_prefix_peeked(p, min_bp) ==
    LET op == Peeked(p)
    IN IF op = None THEN Err(p, error_at_current(p, "Expected expression"))
       ELSE IF op[1] = "ParenOpen"
       THEN then_consume_some(expression_bp(AfterNext(p), 0), "ParenClose")
       ELSE IF op[1] = "Identifier" THEN expression_identifier(resolve(identifier(p)), min_bp)
       ELSE IF op[1] = "Number" THEN number(p)
       ELSE IF op[1] = "String" THEN string(p)
       ELSE IF op[1] \in {"False", "True", "Nil"}
       THEN expression_literal(AfterNext(p), CASE op[1] = "False" -> OP_FALSE
                                               [] op[1] = "True" -> OP_TRUE
                                               [] op[1] = "Nil" -> OP_NIL)
       ELSE IF prefix_bp(op[1]) # None
       THEN then_span_emit(expression_bp(AfterNext(p), prefix_bp(op[1])[1]),
                           span(p.lexer), PrefixCode(op[1]))
       ELSE Err(p, error_at_current(p, <<"Unexpected token", op>>))

expression_prefix(p, min_bp) == expression_prefix_peeked(AfterPeek(p), min_bp)

\* `r?` followed by the (next round of the) loop of expression_bp
then_expression_loop(r, min_bp) ==
    IF r.err # None THEN r ELSE expression_loop(r.p, min_bp)

\* a round of the loop of expression_bp over the infix operators that follow
\* (p has peeked)
expression_loop_peeked(p, min_bp) ==
    LET op == Peeked(p)
    IN IF op = None THEN Ok(p)
       ELSE IF infix_bp(op[1]) = None THEN Ok(p)
       ELSE IF infix_bp(op[1])[1][1] < min_bp THEN Ok(p)
       ELSE then_expression_loop(
                then_span_emit(expression_bp(AfterNext(p), infix_bp(op[1])[1][2]),
                               span(p.lexer), InfixCode(op[1])),
                min_bp)

expression_loop(p, min_bp) == expression_loop_peeked(AfterPeek(p), min_bp)

expression_bp(p, min_bp) == then_expression_loop(expression_prefix(p, min_bp), min_bp)

expression(p) == expression_bp(p, 0)

(***************************************************************************)
(* Parser::statement and Parser::block.  The recursion statement -> block  *)
(* -> statement is unfolded into steps: frames is the stack of the calls   *)
(* of block() that have consumed their `{` and are in their while loop,    *)
(* innermost last.  A frame is [kind, jmp, entry]: kind says which call    *)
(* site of block() it returns to in statement ("Block": the `{` arm,       *)
(* "Then" and "Else": the two calls of the `if` arm), jmp is that call     *)
(* site's pending jump operand offset (els_jmp, then_end_jmp), entry the   *)
(* code offset at which the block's code starts (for the notes).  The      *)
(* results are [p, frames, err]; an error unwinds every frame.             *)
(***************************************************************************)
Frame(kind, jmp, entry) == [kind |-> kind, jmp |-> jmp, entry |-> entry]

StmtOk(p, frames) == [p |-> p, frames |-> frames, err |-> None]
StmtErr(r) == [p |-> r.p, frames |-> <<>>, err |-> r.err]
StmtOf(r, frames) == IF r.err # None THEN StmtErr(r) ELSE StmtOk(r.p, frames)

\* block() once its consume_some(BraceOpen) has returned r: enter the loop
block_opened(r, frames, kind, jmp) ==
    IF r.err # None THEN StmtErr(r)
    ELSE StmtOk(r.p, Append(frames, Frame(kind, jmp, size(r.p.code))))

\* the head of block(): consume `{` and enter the loop
block_open(p, frames, kind, jmp) ==
    block_opened(consume_some(p, "BraceOpen"), frames, kind, jmp)

NoteBlock(p, entry) ==
    [p EXCEPT !.notes.blocks = Append(@, [entry |-> entry, exit |-> size(p.code)])]

\* a local pushed on Locals is noted with the offset after its initialiser
NoteDecl(p, slot) ==
    [p EXCEPT !.notes.decls = Append(@, [at |-> size(p.code), slot |-> slot]),
              !.notes.live = Append(@, Len(p.notes.decls) + 1)]

statement_print(p) ==
    then_consume_some(then_emit(expression(AfterNext(p)), <<OP_PRINT>>), "Semicolon")

\* self.locals.push_local(identifier), pushed being what it returned
declare_local(p, pushed) ==
    IF pushed.pushed
    THEN NoteDecl([p EXCEPT !.locals = pushed.locals], Len(p.locals.stack))
    ELSE p

\* the `let` arm from `if self.locals.depth == 0` on, init being the result
\* of the initialiser
statement_let_define(init, name) ==
    IF init.err # None THEN init
    ELSE IF init.p.locals.depth = 0
    THEN then_consume_some(emit_global_definition(init.p, name), "Semicolon")
    ELSE consume_some(declare_local(init.p, push_local(init.p.locals, name)), "Semicolon")

\* the `let` arm after its peek for `=` (p has peeked)
statement_let_peeked(p, name) ==
    statement_let_define(IF Peeked(p) = Some("Assign") THEN expression(AfterNext(p))
                         ELSE Ok(Emit(p, OP_NIL)),
                         name)

statement_let_init(id) == statement_let_peeked(AfterPeek(id.p), id.name)

\* the `let` arm after expect_some(Identifier) has returned e
statement_let_identifier(e) ==
    IF e.err # None THEN e ELSE statement_let_init(identifier(e.p))

statement_let(p) == statement_let_identifier(expect_some(AfterNext(p), "Identifier"))

statement_expression(p) ==
    then_consume_some(then_emit(expression(p), <<OP_POP>>), "Semicolon")

\* the `if` arm from push_code(OP_POP) to its first call of block()
statement_if_block(els_jmp, frames) ==
    block_open(Emit(els_jmp.p, OP_POP), frames, "Then", els_jmp.offset)

\* the `if` arm once its condition has returned r
statement_if_then(r, frames) ==
    IF r.err # None THEN StmtErr(r)
    ELSE statement_if_block(emit_jump(r.p, OP_JUMP_F), frames)

\* the `if` arm up to its first call of block()
statement_if(p, frames) == statement_if_then(expression(AfterNext(p)), frames)

\* the `{` arm once enter_scope has returned s
statement_block_scope(p, s, frames) ==
    IF s.panic THEN StmtErr(Err([p EXCEPT !.locals = s.locals], PanicError))
    ELSE block_open([p EXCEPT !.locals = s.locals], frames, "Block", 0)

\* the `{` arm up to its call of block()
statement_block(p, frames) ==
    statement_block_scope(p, enter_scope(p.locals, p.overflow_checks), frames)

\* statement() after its peek (p has peeked)
statement_peeked(p, frames) ==
    LET op == Peeked(p)
    IN IF op = None THEN StmtErr(Err(p, error_at_current(p, "Expected statement")))
       ELSE IF op[1] = "Print" THEN StmtOf(statement_print(p), frames)
       ELSE IF op[1] = "If" THEN statement_if(p, frames)
       ELSE IF op[1] = "Let" THEN StmtOf(statement_let(p), frames)
       ELSE IF op[1] = "BraceOpen" THEN statement_block(p, frames)
       ELSE StmtOf(statement_expression(p), frames)

\* statement(), up to the first call of block() if it makes one
statement(p, frames) == statement_peeked(AfterPeek(p), frames)

\* the `{` arm once exit_scope has returned x
block_exit_scope(p, x, frames, f) ==
    IF x.panic THEN StmtErr(Err([p EXCEPT !.locals = x.locals], PanicError))
    ELSE StmtOk(NoteBlock(EmitAll([p EXCEPT !.locals = x.locals,
                                            !.notes.live = SubSeq(@, 1, Len(x.locals.stack))],
                                  [i \in 1..x.dropped |-> OP_POP]),
                          f.entry),
                frames)

\* the rest of the `{` arm, after block() has returned
block_return_Block(p, frames, f) ==
    block_exit_scope(p, exit_scope(p.locals, p.overflow_checks), frames, f)

\* the `if` arm after its peek for `else` (p has peeked)
block_return_Then_peeked(p, then_end_jmp, frames) ==
    IF Peeked(p) = Some("Else")
    THEN block_open(AfterNext(p), frames, "Else", then_end_jmp)
    ELSE StmtOf(patch_jump(p, then_end_jmp, size(p.code)), frames)

\* the `if` arm once patch_jump(els_jmp, ..) has returned r
block_return_Then_patched(r, then_end_jmp, frames) ==
    IF r.err # None THEN StmtErr(r)
    ELSE block_return_Then_peeked(AfterPeek(Emit(r.p, OP_POP)), then_end_jmp, frames)

\* the `if` arm once emit_jump(OP_JUMP) has returned then_end_jmp
block_return_Then_jump(then_end_jmp, frames, f) ==
    block_return_Then_patched(
        patch_jump(then_end_jmp.p, f.jmp, size(then_end_jmp.p.code)),
        then_end_jmp.offset, frames)

\* the rest of the `if` arm, after its first block() has returned
block_return_Then(p, frames, f) ==
    block_return_Then_jump(emit_jump(NoteBlock(p, f.entry), OP_JUMP), frames, f)

\* the rest of the `if` arm, after its second block() has returned
block_return_Else(p, frames, f) ==
    StmtOf(patch_jump(NoteBlock(p, f.entry), f.jmp, size(p.code)), frames)

\* block() once its consume_some(BraceClose) has returned r: back to the
\* call site
block_closed(r, f, rest) ==
    IF r.err # None THEN StmtErr(r)
    ELSE IF f.kind = "Block" THEN block_return_Block(r.p, rest, f)
    ELSE IF f.kind = "Then" THEN block_return_Then(r.p, rest, f)
    ELSE block_return_Else(r.p, rest, f)

\* the tail of block(), once its loop has peeked None or `}`: consume the
\* `}` and return to the call site
block_close(p, frames) ==
    block_closed(consume_some(p, "BraceClose"), frames[Len(frames)],
                 SubSeq(frames, 1, Len(frames) - 1))

\* the recovery loop of parse_source after a failed statement
RECURSIVE recover(_)

\* a round of the loop (lx has peeked)
recover_peeked(lx) ==
    IF lx.peeked[1] = None THEN lx
    ELSE IF lx.peeked[1][1] = "Semicolon" THEN next(lx).lexer
    ELSE IF lx.peeked[1][1] \in {"Class", "Fn", "Let", "For", "If", "While", "Print", "Return"}
    THEN lx
    ELSE recover(next(lx).lexer)

recover(lx) == recover_peeked(peek(lx).lexer)

(***************************************************************************)
(* bytecode/vm.rs: Stack and VM.  A vm is [stack, pc].                     *)
(***************************************************************************)
VM_init == [stack |-> <<>>, pc |-> 0]

\* returns [stack, value]: value is None on an empty stack (EmptyStack)
Stack_pop(stack) ==
    IF stack = <<>> THEN [stack |-> stack, value |-> None]
    ELSE [stack |-> SubSeq(stack, 1, Len(stack) - 1), value |-> Some(stack[Len(stack)])]

\* returns [value, panic]: len - 1 - dist underflows on a too-short stack,
\* which panics in a build with overflow checks and otherwise wraps to an
\* index far outside the stack (EmptyStack)
Stack_peek(stack, dist, overflow_checks) ==
    LET idx == Len(stack) - 1 - dist
    IN IF idx < 0 THEN [value |-> None, panic |-> overflow_checks]
       ELSE [value |-> Some(stack[idx + 1]), panic |-> FALSE]

Stack_get_at(stack, idx) ==
    IF idx < Len(stack) THEN Some(stack[idx + 1]) ELSE None

\* Option of the new stack
Stack_set_at(stack, idx, value) ==
    IF idx < Len(stack) THEN Some([stack EXCEPT ![idx + 1] = value]) ELSE None

Stack_push(stack, value) == Append(stack, value)

\* returns [vm, byte]
read_u8(vm, chunk) ==
    [vm |-> [vm EXCEPT !.pc = @ + 1], byte |-> get_byte(chunk, vm.pc)]

\* a read_u16 that takes the operand for little-endian
read_u16_little_endian(vm, chunk) ==
    LET little == get_byte(chunk, vm.pc)
        big == get_byte(chunk, vm.pc + 1)
    IN [vm |-> [vm EXCEPT !.pc = @ + 2],
        word |-> IF big = None \/ little = None THEN None
                 ELSE Some(big[1] * U8 + little[1])]

\* returns [vm, word]
read_u16(vm, chunk) ==
    LET big == get_byte(chunk, vm.pc)
        little == get_byte(chunk, vm.pc + 1)
    IN [vm |-> [vm EXCEPT !.pc = @ + 2],
        word |-> IF big = None \/ little = None THEN None
                 ELSE Some(big[1] * U8 + little[1])]

\* returns [vm, value, err]
read_constant(vm, chunk) ==
    LET r == read_u8(vm, chunk)
    IN IF r.byte = None THEN [vm |-> r.vm, value |-> None, err |-> "UnexpectedEnd"]
       ELSE IF get_constant(chunk, r.byte[1]) = None
       THEN [vm |-> r.vm, value |-> None, err |-> "ConstantNotFound"]
       ELSE [vm |-> r.vm, value |-> get_constant(chunk, r.byte[1]), err |-> "Ok"]

\* the number of operand bytes the disassembler reads after an opcode
OperandBytes(op) ==
    IF op \in {OP_CONSTANT, OP_DEF_GLOBAL, OP_GET_GLOBAL, OP_SET_GLOBAL,
               OP_GET_LOCAL, OP_SET_LOCAL} THEN 1
    ELSE IF op \in {OP_JUMP, OP_JUMP_F} THEN 2
    ELSE 0

\* the trace! of step formats the stack and Dissasembler.at(pc) when trace
\* logging is on: the indexing of code and constants in
\* dissasemble_instruction and the unwrap in print_with_heap panic
trace_panics(vm, chunk, h) ==
    \/ \E i \in 1..Len(vm.stack) : print_with_heap(vm.stack[i], h).panic
    \/ get_byte(chunk, vm.pc) = None
    \/ \E i \in 1..OperandBytes(chunk.code[vm.pc + 1]) : get_byte(chunk, vm.pc + i) = None
    \/ /\ chunk.code[vm.pc + 1] \in {OP_CONSTANT, OP_DEF_GLOBAL, OP_GET_GLOBAL, OP_SET_GLOBAL}
       /\ \/ get_constant(chunk, chunk.code[vm.pc + 2]) = None
          \/ print_with_heap(get_constant(chunk, chunk.code[vm.pc + 2])[1], h).panic

\* the results of step: [vm, heap, res, out]; res is "KeepGoing", "Halt",
\* the name of the RuntimeError, or "panic"; out is what PRINT wrote
StepRes(vm, h, res) == [vm |-> vm, heap |-> h, res |-> res, out |-> None]

\* the method un_op! is given for each unary opcode
un_op_method(op, a, h) ==
    IF op = OP_NEG THEN value_neg(a, h) ELSE value_not(a, h)

un_op(vm, h, op) ==
    LET a == Stack_pop(vm.stack)
        v == un_op_method(op, a.value[1], h)
    IN IF a.value = None THEN StepRes(vm, h, "EmptyStack")
       ELSE IF v.ok # "Ok" THEN StepRes([vm EXCEPT !.stack = a.stack], v.heap, v.ok)
       ELSE StepRes([vm EXCEPT !.stack = Stack_push(a.stack, v.value)], v.heap, "KeepGoing")

\* the method bin_op! is given for each binary opcode
bin_op_method(op, a, b, h) ==
    IF op = OP_AND THEN value_and(a, b, h)
    ELSE IF op = OP_OR THEN value_or(a, b, h)
    ELSE IF op = OP_ADD THEN value_add(a, b, h)
    ELSE IF op = OP_SUB THEN value_sub(a, b, h)
    ELSE IF op = OP_MUL THEN value_mul(a, b, h)
    ELSE IF op = OP_DIV THEN value_div(a, b, h)
    ELSE IF op = OP_EQUAL THEN value_equal(a, b, h)
    ELSE IF op = OP_LESS THEN value_less(a, b, h)
    ELSE value_greater(a, b, h)

\* a bin_op! that takes the value popped first for the left operand
bin_op_mirrored(vm, h, op) ==
    LET b == Stack_pop(vm.stack)
        a == Stack_pop(b.stack)
        v == bin_op_method(op, b.value[1], a.value[1], h)
    IN IF b.value = None THEN StepRes(vm, h, "EmptyStack")
       ELSE IF a.value = None THEN StepRes([vm EXCEPT !.stack = b.stack], h, "EmptyStack")
       ELSE IF v.ok # "Ok" THEN StepRes([vm EXCEPT !.stack = a.stack], v.heap, v.ok)
       ELSE StepRes([vm EXCEPT !.stack = Stack_push(a.stack, v.value)], v.heap, "KeepGoing")

bin_op(vm, h, op) ==
    LET b == Stack_pop(vm.stack)
        a == Stack_pop(b.stack)
        v == bin_op_method(op, a.value[1], b.value[1], h)
    IN IF b.value = None THEN StepRes(vm, h, "EmptyStack")
       ELSE IF a.value = None THEN StepRes([vm EXCEPT !.stack = b.stack], h, "EmptyStack")
       ELSE IF v.ok # "Ok" THEN StepRes([vm EXCEPT !.stack = a.stack], v.heap, v.ok)
       ELSE StepRes([vm EXCEPT !.stack = Stack_push(a.stack, v.value)], v.heap, "KeepGoing")

step_PRINT(vm, h) ==
    LET value == Stack_pop(vm.stack)
        shown == print_with_heap(value.value[1], h)
    IN IF value.value = None THEN StepRes(vm, h, "EmptyStack")
       ELSE IF shown.panic THEN StepRes([vm EXCEPT !.stack = value.stack], h, "panic")
       ELSE [vm |-> [vm EXCEPT !.stack = value.stack], heap |-> h, res |-> "KeepGoing",
             out |-> Some(shown.text)]

step_CONSTANT(vm, chunk, h) ==
    LET c == read_constant(vm, chunk)
    IN IF c.err # "Ok" THEN StepRes(c.vm, h, c.err)
       ELSE StepRes([c.vm EXCEPT !.stack = Stack_push(@, c.value[1])], h, "KeepGoing")

step_POP(vm, h) ==
    LET value == Stack_pop(vm.stack)
    IN IF value.value = None THEN StepRes(vm, h, "EmptyStack")
       ELSE StepRes([vm EXCEPT !.stack = value.stack], h, "KeepGoing")

step_DEF_GLOBAL(vm, chunk, h) ==
    LET c == read_constant(vm, chunk)
        variable == Stack_pop(c.vm.stack)
        popped == [c.vm EXCEPT !.stack = variable.stack]
    IN IF c.err # "Ok" THEN StepRes(c.vm, h, c.err)
       ELSE IF c.value[1].t # "Object" THEN StepRes(c.vm, h, "ConstantNotIdentifier")
       ELSE IF variable.value = None THEN StepRes(c.vm, h, "EmptyStack")
       ELSE IF ~put_as_global_asserts(h, c.value[1].key) THEN StepRes(popped, h, "panic")
       ELSE StepRes(popped, put_as_global(h, c.value[1].key, variable.value[1]), "KeepGoing")

step_GET_GLOBAL(vm, chunk, h) ==
    LET c == read_constant(vm, chunk)
        val == get_global(h, c.value[1].key)
    IN IF c.err # "Ok" THEN StepRes(c.vm, h, c.err)
       ELSE IF c.value[1].t # "Object" THEN StepRes(c.vm, h, "ConstantNotIdentifier")
       ELSE IF val = None THEN StepRes(c.vm, h, "GlobalVariableNotFound")
       ELSE StepRes([c.vm EXCEPT !.stack = Stack_push(@, val[1])], h, "KeepGoing")

\* a SET_GLOBAL without its get_global(ident)?: it defines an unbound name
step_SET_GLOBAL_without_lookup(vm, chunk, h, overflow_checks) ==
    LET c == read_constant(vm, chunk)
        top == Stack_peek(c.vm.stack, 0, overflow_checks)
    IN IF c.err # "Ok" THEN StepRes(c.vm, h, c.err)
       ELSE IF c.value[1].t # "Object" THEN StepRes(c.vm, h, "ConstantNotIdentifier")
       ELSE IF top.panic THEN StepRes(c.vm, h, "panic")
       ELSE IF top.value = None THEN StepRes(c.vm, h, "EmptyStack")
       ELSE IF ~put_as_global_asserts(h, c.value[1].key) THEN StepRes(c.vm, h, "panic")
       ELSE StepRes(c.vm, put_as_global(h, c.value[1].key, top.value[1]), "KeepGoing")

step_SET_GLOBAL(vm, chunk, h, overflow_checks) ==
    LET c == read_constant(vm, chunk)
        top == Stack_peek(c.vm.stack, 0, overflow_checks)
    IN IF c.err # "Ok" THEN StepRes(c.vm, h, c.err)
       ELSE IF c.value[1].t # "Object" THEN StepRes(c.vm, h, "ConstantNotIdentifier")
       ELSE IF get_global(h, c.value[1].key) = None
       THEN StepRes(c.vm, h, "GlobalVariableNotFound")
       ELSE IF top.panic THEN StepRes(c.vm, h, "panic")
       ELSE IF top.value = None THEN StepRes(c.vm, h, "EmptyStack")
       ELSE IF ~put_as_global_asserts(h, c.value[1].key) THEN StepRes(c.vm, h, "panic")
       ELSE StepRes(c.vm, put_as_global(h, c.value[1].key, top.value[1]), "KeepGoing")

step_GET_LOCAL(vm, chunk, h) ==
    LET idx == read_u8(vm, chunk)
        local == Stack_get_at(idx.vm.stack, idx.byte[1])
    IN IF idx.byte = None THEN StepRes(idx.vm, h, "UnexpectedEnd")
       ELSE IF local = None THEN StepRes(idx.vm, h, "EmptyStack")
       ELSE StepRes([idx.vm EXCEPT !.stack = Stack_push(@, local[1])], h, "KeepGoing")

step_SET_LOCAL(vm, chunk, h, overflow_checks) ==
    LET idx == read_u8(vm, chunk)
        set == Stack_peek(idx.vm.stack, 0, overflow_checks)
        stored == Stack_set_at(idx.vm.stack, idx.byte[1], set.value[1])
    IN IF idx.byte = None THEN StepRes(idx.vm, h, "UnexpectedEnd")
       ELSE IF set.panic THEN StepRes(idx.vm, h, "panic")
       ELSE IF set.value = None THEN StepRes(idx.vm, h, "EmptyStack")
       ELSE IF stored = None THEN StepRes(idx.vm, h, "EmptyStack")
       ELSE StepRes([idx.vm EXCEPT !.stack = stored[1]], h, "KeepGoing")

step_JUMP(vm, chunk, h) ==
    LET pos == read_u16(vm, chunk)
    IN IF pos.word = None THEN StepRes(pos.vm, h, "UnexpectedEnd")
       ELSE StepRes([pos.vm EXCEPT !.pc = @ + pos.word[1]], h, "KeepGoing")

\* a JUMP_F that pops the value it tests
step_JUMP_F_popping(vm, chunk, h, overflow_checks) ==
    LET pos == read_u16(vm, chunk)
        value == Stack_pop(pos.vm.stack)
    IN IF pos.word = None THEN StepRes(pos.vm, h, "UnexpectedEnd")
       ELSE IF value.value = None THEN StepRes(pos.vm, h, "EmptyStack")
       ELSE IF is_falsey(value.value[1])
       THEN StepRes([pos.vm EXCEPT !.pc = @ + pos.word[1], !.stack = value.stack], h,
                    "KeepGoing")
       ELSE StepRes([pos.vm EXCEPT !.stack = value.stack], h, "KeepGoing")

step_JUMP_F(vm, chunk, h, overflow_checks) ==
    LET pos == read_u16(vm, chunk)
        value == Stack_peek(pos.vm.stack, 0, overflow_checks)
    IN IF pos.word = None THEN StepRes(pos.vm, h, "UnexpectedEnd")
       ELSE IF value.panic THEN StepRes(pos.vm, h, "panic")
       ELSE IF value.value = None THEN StepRes(pos.vm, h, "EmptyStack")
       ELSE IF is_falsey(value.value[1])
       THEN StepRes([pos.vm EXCEPT !.pc = @ + pos.word[1]], h, "KeepGoing")
       ELSE StepRes(pos.vm, h, "KeepGoing")

Push(vm, h, value) == StepRes([vm EXCEPT !.stack = Stack_push(@, value)], h, "KeepGoing")

\* VM::step; tracing says whether trace logging is on
step(vm0, chunk, h, overflow_checks, tracing) ==
    LET r == read_u8(vm0, chunk)
        vm == r.vm
        op == r.byte[1]
    IN IF tracing /\ trace_panics(vm0, chunk, h) THEN StepRes(vm0, h, "panic")
       ELSE IF r.byte = None THEN StepRes(vm, h, "UnexpectedEnd")
       ELSE IF op = OP_RETURN THEN StepRes(vm, h, "Halt")
       ELSE IF op = OP_PRINT THEN step_PRINT(vm, h)
       ELSE IF op = OP_CONSTANT THEN step_CONSTANT(vm, chunk, h)
       ELSE IF op = OP_POP THEN step_POP(vm, h)
       ELSE IF op = OP_DEF_GLOBAL THEN step_DEF_GLOBAL(vm, chunk, h)
       ELSE IF op = OP_GET_GLOBAL THEN step_GET_GLOBAL(vm, chunk, h)
       ELSE IF op = OP_SET_GLOBAL THEN step_SET_GLOBAL(vm, chunk, h, overflow_checks)
       ELSE IF op = OP_GET_LOCAL THEN step_GET_LOCAL(vm, chunk, h)
       ELSE IF op = OP_SET_LOCAL THEN step_SET_LOCAL(vm, chunk, h, overflow_checks)
       ELSE IF op = OP_JUMP THEN step_JUMP(vm, chunk, h)
       ELSE IF op = OP_JUMP_F THEN step_JUMP_F(vm, chunk, h, overflow_checks)
       ELSE IF op = OP_TRUE THEN Push(vm, h, Bool(TRUE))
       ELSE IF op = OP_FALSE THEN Push(vm, h, Bool(FALSE))
       ELSE IF op = OP_NIL THEN Push(vm, h, Nil)
       ELSE IF op \in {OP_NEG, OP_NOT} THEN un_op(vm, h, op)
       ELSE IF op \in {OP_AND, OP_OR, OP_ADD, OP_SUB, OP_MUL, OP_DIV, OP_EQUAL, OP_LESS,
                       OP_GREATER} THEN bin_op(vm, h, op)
       ELSE StepRes(vm, h, "UnknownCode")

\* VM::current_span: Option of the span-table entry covering pc - 1
current_span(vm, chunk) == find_span_of(chunk, vm.pc - 1)

(***************************************************************************)
(* Source texts, as the token sequences logos yields for them              *)
(***************************************************************************)
K(kind) == [kind |-> kind, slice |-> <<>>]
Id(name) == [kind |-> "Identifier", slice |-> <<name>>]
Num(digit) == [kind |-> "Number", slice |-> <<digit>>]
Str(char) == [kind |-> "String", slice |-> <<"\"", char, "\"">>]

Semi == <<K("Semicolon")>>
LetStmt(name, init) ==
    <<K("Let"), Id(name)>> \o (IF init = <<>> THEN <<>> ELSE <<K("Assign")>> \o init) \o Semi
PrintStmt(e) == <<K("Print")>> \o e \o Semi
ExprStmt(e) == e \o Semi
AssignTo(name, e) == <<Id(name), K("Assign")>> \o e
Block(body) == <<K("BraceOpen")>> \o body \o <<K("BraceClose")>>
IfStmt(cond, then, els) ==
    <<K("If")>> \o cond \o Block(then)
        \o (IF els = None THEN <<>> ELSE <<K("Else")>> \o Block(els[1]))

\* the literal initialisers, and the Value each evaluates to once its
\* string (if any) has key k
Literals == {<<Num("1")>>, <<Num("2")>>, <<K("True")>>, <<K("Nil")>>, <<Str("a")>>}

\* let x = e1; let x = e2;  (an empty initialiser is `let x;`)
Inits == Literals \cup {<<>>}
LetSources == {LetStmt("x", e) : e \in Inits}
LetPairSources == {LetStmt("x", e1) \o LetStmt("x", e2) : e1, e2 \in Inits}

\* statements that use the globals x and y
UseSources ==
    { PrintStmt(<<Id("x")>>),
      PrintStmt(<<Id("y")>>),
      ExprStmt(AssignTo("x", <<Num("2")>>)),
      ExprStmt(AssignTo("y", <<K("True")>>)),
      PrintStmt(AssignTo("x", <<Str("a")>>)) }

\* sources with a parse error or a runtime error
BadSources ==
    { <<K("Class")>>,
      PrintStmt(<<K("Return")>>),
      <<K("Print"), Num("1"), K("Add")>>,
      <<K("BraceOpen"), K("Let"), Id("x"), K("Semicolon")>>,
      ExprStmt(<<Num("1"), K("Assign"), Num("2")>>) \o LetStmt("x", <<Num("1")>>),
      PrintStmt(<<Num("1"), K("Add"), Str("a")>>) }

\* programs of blocks, ifs and locals:
\*   [ { ] [let x = 1;] if C { T } [else { E }] P [ } ]
Bodies ==
    { <<>>,
      LetStmt("x", <<Num("2")>>),
      LetStmt("y", <<>>),
      PrintStmt(<<Id("x")>>),
      ExprStmt(AssignTo("x", <<K("Nil")>>)),
      Block(LetStmt("x", <<K("True")>>) \o PrintStmt(<<Id("x")>>)) }

IfSources ==
    { LET body == pre \o IfStmt(cond, then, els) \o post
      IN IF wrap THEN Block(body) ELSE body :
        wrap \in BOOLEAN,
        pre \in {<<>>, LetStmt("x", <<Num("1")>>)},
        cond \in {<<K("True")>>, <<K("False")>>},
        then \in Bodies,
        els \in {None} \cup {Some(b) : b \in Bodies},
        post \in Bodies }

FileSources == LetPairSources \cup UseSources \cup BadSources \cup IfSources
ReplSources == LetSources \cup UseSources \cup BadSources

\* the lines read in a REPL session, and the errors of one parse_source
\* (which may loop for ever), are bounded
MaxLines == 2
MaxErrors == 2

(***************************************************************************)
(* The program: main.rs (file, repl), with Parser::parse_source and        *)
(* VM::run unfolded into the steps of their loops.                         *)
(***************************************************************************)
VARIABLES
    overflow_checks, \* the build: TRUE with overflow checks (debug), FALSE without
    mode,            \* "file" (--input PATH) or "repl"
    at,              \* where file()/repl() is: "start", "parse", "run", "exit"
    parser,          \* [lexer, locals] of the Parser of the current parse_source
    frames,          \* its calls of block() in progress
    errors,          \* the errors Vec of the current parse_source
    code,            \* the CodeChunk of the current source
    heap,            \* the ObjectHeap
    vm,              \* the VM of the current run: [stack, pc]
    run,             \* the last result of VM::step: "NotRun" before the first
    stdout,          \* the lines PRINT has written
    reports,         \* the errors given to the reporter
    exit_code,       \* Option: the process's exit status
    lines,           \* the number of lines the REPL has read
    notes,           \* what the compiler knew of the current chunk (Notes_new)
    obs,             \* what is observed of the current run (Obs_init)
    interned         \* every [string, key] a direct call of intern_string returned

vars == <<overflow_checks, mode, at, parser, frames, errors, code, heap, vm, run,
          stdout, reports, exit_code, lines, notes, obs, interned>>

\* main() sets the log level of game_lang to Trace
TraceLogging == TRUE

\* the Parser of the state
P == [lexer |-> parser.lexer, code |-> code, heap |-> heap, locals |-> parser.locals,
      overflow_checks |-> overflow_checks, notes |-> notes]

\* the number of tokens the parser has consumed from its lexer
Consumed(lx) == lx.pos - (IF lx.peeked # None /\ lx.pos <= Len(lx.source) THEN 1 ELSE 0)

(***************************************************************************)
(* obs is [cells, entry]: cells[i] is the index in notes.decls of the      *)
(* local whose initialiser left stack cell i (0 for any other cell);       *)
(* entry[b] is the stack depth when execution reached the first            *)
(* instruction of block notes.blocks[b].                                   *)
(***************************************************************************)
ObsEnter(o, n, pc, depth) ==
    [o EXCEPT !.entry =
        [b \in DOMAIN o.entry \cup {b \in 1..Len(n.blocks) : n.blocks[b].entry = pc} |->
            IF b \in DOMAIN o.entry THEN o.entry[b] ELSE depth]]

Obs_init(n) == ObsEnter([cells |-> <<>>, entry |-> <<>>], n, 0, 0)

\* the cells after a step from vm0 to vm1 of the instruction op
ObsStep(o, n, vm0, vm1, op) ==
    LET popped == IF op \in {OP_ADD, OP_SUB, OP_MUL, OP_DIV, OP_AND, OP_OR, OP_EQUAL,
                             OP_LESS, OP_GREATER} THEN 2
                  ELSE IF op \in {OP_NEG, OP_NOT, OP_PRINT, OP_POP, OP_DEF_GLOBAL} THEN 1
                  ELSE 0
        kept == Min(Len(vm1.stack), IF Len(vm0.stack) >= popped
                                    THEN Len(vm0.stack) - popped ELSE 0)
        cells == [i \in 1..Len(vm1.stack) |-> IF i <= kept THEN o.cells[i] ELSE 0]
        fell == vm1.pc = vm0.pc + 1 + OperandBytes(op)
        here == {d \in 1..Len(n.decls) : n.decls[d].at = vm1.pc}
        marked == IF fell /\ here # {} /\ cells # <<>>
                  THEN [cells EXCEPT ![Len(cells)] = CHOOSE d \in here : TRUE]
                  ELSE cells
    IN ObsEnter([o EXCEPT !.cells = marked], n, vm1.pc, Len(vm1.stack))

Init ==
    /\ overflow_checks \in BOOLEAN
    /\ mode \in {"file", "repl"}
    /\ at = "start"
    /\ parser = [lexer |-> Lexer_lex(<<>>), locals |-> Locals_new]
    /\ frames = <<>>
    /\ errors = <<>>
    /\ code = CodeChunk_new
    /\ heap = ObjectHeap_new
    /\ vm = VM_init
    /\ run = "NotRun"
    /\ stdout = <<>>
    /\ reports = <<>>
    /\ exit_code = None
    /\ lines = 0
    /\ notes = Notes_new
    /\ obs = Obs_init(Notes_new)
    /\ interned = {}

\* let mut code = CodeChunk::new(); .. Parser::parse_source(&input, ..) up to
\* its loop
BeginParse(source) ==
    /\ parser' = [lexer |-> Lexer_lex(source), locals |-> Locals_new]
    /\ frames' = <<>>
    /\ errors' = <<>>
    /\ code' = CodeChunk_new
    /\ notes' = Notes_new
    /\ at' = "parse"

\* file(): the file is read, and chunk and heap are created
FileStart(sources) ==
    /\ mode = "file" /\ at = "start"
    /\ \E source \in sources : BeginParse(source)
    /\ heap' = ObjectHeap_new
    /\ UNCHANGED <<overflow_checks, mode, vm, run, stdout, reports, exit_code, lines, obs,
                   interned>>

\* a REPL that creates its heap anew for every line
ReplLine_with_fresh_heap(sources, max) ==
    /\ mode = "repl" /\ at = "start" /\ lines < max
    /\ \E source \in sources : BeginParse(source)
    /\ lines' = lines + 1
    /\ heap' = ObjectHeap_new
    /\ UNCHANGED <<overflow_checks, mode, vm, run, stdout, reports, exit_code, obs,
                   interned>>

\* repl(): readline returns a line, one of sources (at most max lines are
\* read)
ReplLine(sources, max) ==
    /\ mode = "repl" /\ at = "start" /\ lines < max
    /\ \E source \in sources : BeginParse(source)
    /\ lines' = lines + 1
    /\ UNCHANGED <<overflow_checks, mode, heap, vm, run, stdout, reports, exit_code, obs,
                   interned>>

ReplReadLine == ReplLine(ReplSources, MaxLines)

\* repl(): readline fails (end of input); main returns
ReplEnd ==
    /\ mode = "repl" /\ at = "start"
    /\ at' = "exit"
    /\ exit_code' = Some(0)
    /\ UNCHANGED <<overflow_checks, mode, parser, frames, errors, code, heap, vm, run,
                   stdout, reports, lines, notes, obs, interned>>

\* what follows a step r = [p, frames, err] of the parser: a panic ends the
\* process with status 101, an error is pushed on errors and the recovery
\* loop runs
AfterParseStep(r) ==
    /\ code' = r.p.code
    /\ heap' = r.p.heap
    /\ notes' = r.p.notes
    /\ frames' = r.frames
    /\ IF r.err = Some(PanicError)
       THEN /\ at' = "exit" /\ exit_code' = Some(101)
            /\ parser' = [lexer |-> r.p.lexer, locals |-> r.p.locals]
            /\ errors' = errors
       ELSE /\ at' = at /\ exit_code' = exit_code
            /\ parser' = [lexer |-> IF r.err = None THEN r.p.lexer ELSE recover(r.p.lexer),
                          locals |-> r.p.locals]
            /\ errors' = IF r.err = None THEN errors ELSE Append(errors, r.err[1])
    /\ UNCHANGED <<overflow_checks, mode, vm, run, stdout, reports, lines, obs, interned>>

\* a call of statement(), from the loop of parse_source or of block()
ParseStatement ==
    /\ at = "parse"
    /\ Len(errors) < MaxErrors
    /\ Peek(P) # None
    /\ frames = <<>> \/ Peek(P) # Some("BraceClose")
    /\ AfterParseStep(statement(P, frames))

\* the loop of a block() ends (at `}` or at the end of the input)
ParseBlockClose ==
    /\ at = "parse"
    /\ Len(errors) < MaxErrors
    /\ frames # <<>>
    /\ Peek(P) \in {None, Some("BraceClose")}
    /\ AfterParseStep(block_close(P, frames))

\* what follows the return of file()'s or repl()'s work on one source
Return ==
    IF mode = "file" THEN at' = "exit" /\ exit_code' = Some(0)
    ELSE at' = "start" /\ exit_code' = exit_code

\* a parse_source that returns Ok whatever its errors: RETURN is emitted and
\* the VM created
ParseFinish_ignoring_errors ==
    /\ at = "parse"
    /\ frames = <<>>
    /\ Peek(P) = None
    /\ parser' = [parser EXCEPT !.lexer = peek(parser.lexer).lexer]
    /\ code' = push_code(code, OP_RETURN)
    /\ vm' = VM_init
    /\ run' = "KeepGoing"
    /\ obs' = Obs_init(notes)
    /\ at' = "run"
    /\ UNCHANGED <<reports, exit_code>>
    /\ UNCHANGED <<overflow_checks, mode, frames, errors, heap, stdout, lines, notes,
                   interned>>

\* a parse_source that returns Ok without its final RETURN
ParseFinish_without_return ==
    /\ at = "parse"
    /\ frames = <<>>
    /\ Peek(P) = None
    /\ parser' = [parser EXCEPT !.lexer = peek(parser.lexer).lexer]
    /\ IF errors = <<>>
       THEN /\ vm' = VM_init
            /\ run' = "KeepGoing"
            /\ obs' = Obs_init(notes)
            /\ at' = "run"
            /\ UNCHANGED <<code, reports, exit_code>>
       ELSE /\ reports' = reports \o errors
            /\ Return
            /\ UNCHANGED <<code, vm, run, obs>>
    /\ UNCHANGED <<overflow_checks, mode, frames, errors, heap, stdout, lines, notes,
                   interned>>

\* the loop of parse_source ends: RETURN is emitted and the VM created, or
\* the errors are reported
ParseFinish ==
    /\ at = "parse"
    /\ frames = <<>>
    /\ Peek(P) = None
    /\ parser' = [parser EXCEPT !.lexer = peek(parser.lexer).lexer]
    /\ IF errors = <<>>
       THEN /\ code' = push_code(code, OP_RETURN)
            /\ vm' = VM_init
            /\ run' = "KeepGoing"
            /\ obs' = Obs_init(notes)
            /\ at' = "run"
            /\ UNCHANGED <<reports, exit_code>>
       ELSE /\ reports' = reports \o errors
            /\ Return
            /\ UNCHANGED <<code, vm, run, obs>>
    /\ UNCHANGED <<overflow_checks, mode, frames, errors, heap, stdout, lines, notes,
                   interned>>

\* one iteration of VM::run; when step halts or fails, run returns and the
\* error is reported with current_span
Step ==
    /\ at = "run"
    /\ LET r == step(vm, code, heap, overflow_checks, TraceLogging)
       IN /\ vm' = r.vm
          /\ heap' = r.heap
          /\ run' = r.res
          /\ stdout' = IF r.out = None THEN stdout ELSE Append(stdout, r.out[1])
          /\ obs' = IF get_byte(code, vm.pc) = None THEN obs
                    ELSE ObsStep(obs, notes, vm, r.vm, code.code[vm.pc + 1])
          /\ IF r.res = "KeepGoing" THEN UNCHANGED <<at, exit_code, reports>>
             ELSE IF r.res = "panic"
             THEN at' = "exit" /\ exit_code' = Some(101) /\ UNCHANGED reports
             ELSE IF r.res = "Halt" THEN Return /\ UNCHANGED reports
             ELSE /\ reports' = Append(reports, [msg |-> r.res,
                                                 span |-> current_span(r.vm, code)])
                  /\ Return
    /\ UNCHANGED <<overflow_checks, mode, parser, frames, errors, code, lines, notes,
                   interned>>

Next ==
    \/ FileStart(FileSources)
    \/ ReplReadLine
    \/ ReplEnd
    \/ ParseStatement
    \/ ParseBlockClose
    \/ ParseFinish
    \/ Step

Spec == Init /\ [][Next]_vars

(***************************************************************************)
(* Files of one block of n declarations, { let a; ... let a; }, for n      *)
(* around the capacity of Locals.                                          *)
(***************************************************************************)
MaxLets == 257

LetCounts == {0, 1, 2, MaxLets - 2, MaxLets - 1, MaxLets}

LetsBlock(n) ==
    Block([i \in 1..(3 * n) |-> IF i % 3 = 1 THEN K("Let")
                                 ELSE IF i % 3 = 2 THEN Id("a")
                                 ELSE K("Semicolon")])

LetsSources == {LetsBlock(n) : n \in LetCounts}

NextLets ==
    \/ FileStart(LetsSources)
    \/ ParseStatement
    \/ ParseBlockClose
    \/ ParseFinish
    \/ Step

SpecLets == Init /\ [][NextLets]_vars

(***************************************************************************)
(* The ObjectHeap on its own, under the operations the compiler and the VM *)
(* perform on it: intern_string (Parser::string, push_string_constant),    *)
(* Value::add on two strings (which interns the concatenation) and         *)
(* put_as_global.  The heap holds at most MaxObjects objects and strings   *)
(* of at most MaxStringLen characters.                                     *)
(***************************************************************************)
MaxObjects == 3
MaxStringLen == 2

HeapStrings == {<<>>, <<"a">>, <<"b">>}

\* a call of intern_string with its result r noted in interned: again says
\* that the string had been noted before
NoteInterned(contents, key) ==
    interned' = interned \cup {[call |-> "intern_string", string |-> contents, key |-> key,
                                again |-> \E e \in interned : e.string = contents]}

HeapIntern ==
    /\ \E contents \in HeapStrings :
           \E r \in {intern_string(heap, contents)} :
               /\ Len(r.heap.heap) <= MaxObjects
               /\ heap' = r.heap
               /\ NoteInterned(contents, r.key)
    /\ UNCHANGED <<overflow_checks, mode, at, parser, frames, errors, code, vm, run,
                   stdout, reports, exit_code, lines, notes, obs>>

HeapAdd ==
    /\ \E a, b \in DOMAIN heap.heap :
           \E r \in {value_add(Object(a), Object(b), heap)} :
               /\ r.ok = "Ok"
               /\ Len(r.heap.heap) <= MaxObjects
               /\ Len(heap.heap[a].String \o heap.heap[b].String) <= MaxStringLen
               /\ heap' = r.heap
               /\ NoteInterned(heap.heap[a].String \o heap.heap[b].String, r.value.key)
    /\ UNCHANGED <<overflow_checks, mode, at, parser, frames, errors, code, vm, run,
                   stdout, reports, exit_code, lines, notes, obs>>

HeapPutGlobal ==
    /\ \E ident \in DOMAIN heap.heap :
           /\ put_as_global_asserts(heap, ident)
           /\ heap' = put_as_global(heap, ident, Nil)
    /\ UNCHANGED <<overflow_checks, mode, at, parser, frames, errors, code, vm, run,
                   stdout, reports, exit_code, lines, notes, obs, interned>>

NextHeap ==
    \/ HeapIntern
    \/ HeapAdd
    \/ HeapPutGlobal

SpecHeap == Init /\ [][NextHeap]_vars

(***************************************************************************)
(* Files of one statement over an operator: `print a OP b;`, `print -a;`   *)
(* and `print not a;` for every operator token and the operands below,     *)
(* and a few expressions of two operators.                                 *)
(***************************************************************************)
Operands ==
    {<<K("Nil")>>, <<K("True")>>, <<K("False")>>, <<Num("0")>>, <<Num("2")>>,
     <<Str("a")>>, <<Str("b")>>}

InfixTokens ==
    {"Add", "Sub", "Mul", "Div", "Eq", "Neq", "Gr", "Le", "Geq", "Leq", "And", "Or"}

PrefixTokens == {"Sub", "Not"}

InfixSources == {PrintStmt(a \o <<K(op)>> \o b) : a, b \in Operands, op \in InfixTokens}
PrefixSources == {PrintStmt(<<K(op)>> \o a) : a \in Operands, op \in PrefixTokens}

\* print 1 + "a";   print 1 + nil == true;   print 2 * -nil;
\* print 1 + 2 * "a";
TwoOperatorSources ==
    { PrintStmt(<<Num("1"), K("Add"), Str("a")>>),
      PrintStmt(<<Num("1"), K("Add"), K("Nil"), K("Eq"), K("True")>>),
      PrintStmt(<<Num("2"), K("Mul"), K("Sub"), K("Nil")>>),
      PrintStmt(<<Num("1"), K("Add"), Num("2"), K("Mul"), Str("a")>>) }

\* a + b = 3;   -a = 3;   1 = 2;
InvalidTargetSources ==
    { ExprStmt(<<Id("a"), K("Add"), Id("b"), K("Assign"), Num("3")>>),
      ExprStmt(<<K("Sub"), Id("a"), K("Assign"), Num("3")>>),
      ExprStmt(<<Num("1"), K("Assign"), Num("2")>>) }

\* the source of tests::parse_test: (1 + 5) - - - (8 - 2)
ParseTestSource ==
    <<K("ParenOpen"), Num("1"), K("Add"), Num("5"), K("ParenClose"), K("Sub"), K("Sub"),
      K("Sub"), K("ParenOpen"), Num("8"), K("Sub"), Num("2"), K("ParenClose")>>

ExprSources ==
    InfixSources \cup PrefixSources \cup TwoOperatorSources \cup InvalidTargetSources
        \cup {ParseTestSource}

NextExpr ==
    \/ FileStart(ExprSources)
    \/ ParseStatement
    \/ ParseFinish
    \/ Step

SpecExpr == Init /\ [][NextExpr]_vars

(***************************************************************************)
(* Files `print E;` for the expressions E of up to three operands over     *)
(* the number literals, unary `-`, and the binary arithmetic and           *)
(* comparison operators.  An expression is given as a tree                 *)
(* [op, digit, a, b]: op is a token kind, "Neg" for unary `-`, "Num" for   *)
(* the literal digit; a and b hold the operands (a sequence of one tree,   *)
(* or none).  It is written out with the parentheses the precedence table  *)
(* of the language requires, and no others.                                *)
(***************************************************************************)
Leaf(digit) == [op |-> "Num", digit |-> digit, a |-> <<>>, b |-> <<>>]
Neg(a) == [op |-> "Neg", digit |-> "", a |-> <<a>>, b |-> <<>>]
Bin(op, a, b) == [op |-> op, digit |-> "", a |-> <<a>>, b |-> <<b>>]

ArithmeticTokens == {"Add", "Sub", "Mul", "Div"}
ComparisonTokens == {"Eq", "Neq", "Le", "Gr", "Geq", "Leq"}

\* the levels of the table: higher binds tighter
Level(t) ==
    IF t.op = "Num" THEN 6
    ELSE IF t.op = "Neg" THEN 5
    ELSE IF t.op \in {"Mul", "Div"} THEN 4
    ELSE IF t.op \in {"Add", "Sub"} THEN 3
    ELSE 2

\* the tokens of t where an operand of level at least min is expected
RECURSIVE Render(_, _)
Render(t, min) ==
    LET tokens == IF t.op = "Num" THEN <<Num(t.digit)>>
                  ELSE IF t.op = "Neg" THEN <<K("Sub")>> \o Render(t.a[1], 5)
                  ELSE Render(t.a[1], Level(t)) \o <<K(t.op)>>
                           \o Render(t.b[1], Level(t) + 1)
    IN IF Level(t) < min THEN <<K("ParenOpen")>> \o tokens \o <<K("ParenClose")>>
       ELSE tokens

\* the value of a binary operator of the language on two values: [ok, value]
ValueOfInfix(op, a, b) ==
    IF op \in {"Eq", "Neq"}
    THEN [ok |-> "Ok", value |-> Bool((a.t = b.t /\ a = b) = (op = "Eq"))]
    ELSE IF a.t # "Number" \/ b.t # "Number"
    THEN [ok |-> UnSupportedOperation, value |-> Nil]
    ELSE [ok |-> "Ok",
          value |-> CASE op = "Add" -> f64_add(a, b)
                      [] op = "Sub" -> f64_sub(a, b)
                      [] op = "Mul" -> f64_mul(a, b)
                      [] op = "Div" -> f64_div(a, b)
                      [] op = "Le" -> Bool(f64_lt(a, b))
                      [] op = "Gr" -> Bool(f64_lt(b, a))
                      [] op = "Geq" -> Bool(~f64_lt(a, b))
                      [] op = "Leq" -> Bool(~f64_lt(b, a))]

\* the value of the tree t: [ok, value], ok the error of the first operator
\* that fails
RECURSIVE Eval(_)
Eval(t) ==
    IF t.op = "Num" THEN [ok |-> "Ok", value |-> Number(DigitValue(t.digit))]
    ELSE IF t.op = "Neg"
    THEN (IF Eval(t.a[1]).ok # "Ok" THEN Eval(t.a[1])
          ELSE IF Eval(t.a[1]).value.t # "Number"
          THEN [ok |-> UnSupportedOperation, value |-> Nil]
          ELSE [ok |-> "Ok", value |-> f64_neg(Eval(t.a[1]).value)])
    ELSE IF Eval(t.a[1]).ok # "Ok" THEN Eval(t.a[1])
    ELSE IF Eval(t.b[1]).ok # "Ok" THEN Eval(t.b[1])
    ELSE ValueOfInfix(t.op, Eval(t.a[1]).value, Eval(t.b[1]).value)

Leaves == {Leaf(d) : d \in {"1", "2", "3"}}
OuterLeaves == {Leaf(d) : d \in {"2", "3"}}
OneOperator ==
    {Neg(a) : a \in Leaves}
        \cup {Bin(op, a, b) : op \in ArithmeticTokens \cup ComparisonTokens, a, b \in Leaves}
TwoOperators ==
    {Neg(a) : a \in OneOperator}
        \cup {Bin(op, a, b) : op \in ArithmeticTokens \cup ComparisonTokens,
                              a \in OneOperator, b \in OuterLeaves}
        \cup {Bin(op, a, b) : op \in ArithmeticTokens \cup ComparisonTokens,
                              a \in OuterLeaves, b \in OneOperator}

PrecCases == {[tree |-> t, tokens |-> Render(t, 0)] : t \in Leaves \cup OneOperator \cup TwoOperators}
PrecSources == {PrintStmt(c.tokens) : c \in PrecCases}

NextPrec ==
    \/ FileStart(PrecSources)
    \/ ParseStatement
    \/ ParseFinish
    \/ Step

SpecPrec == Init /\ [][NextPrec]_vars

(***************************************************************************)
(* Files of n statements that each add one constant to the pool, for n     *)
(* around the capacity of the pool: `1; 2; 3; ...` (Parser::number ->      *)
(* emit_constant) and `let x; let y; let x; ...` at global scope           *)
(* (emit_global_definition -> push_string_constant).                       *)
(***************************************************************************)
MaxConstants == 257

ConstantCounts == {0, 1, 2, MaxConstants - 2, MaxConstants - 1, MaxConstants}

\* the literal of the k-th statement of the first family, and the name
\* declared by the k-th statement of the second
DigitOf(k) == NatDigits(k % 10)
NameOf(k) == IF k % 2 = 1 THEN <<"x">> ELSE <<"y">>

NumberStatements(n) ==
    [i \in 1..(2 * n) |-> IF i % 2 = 1 THEN [kind |-> "Number", slice |-> DigitOf((i + 1) \div 2)]
                          ELSE K("Semicolon")]

GlobalStatements(n) ==
    [i \in 1..(3 * n) |-> IF i % 3 = 1 THEN K("Let")
                          ELSE IF i % 3 = 2
                          THEN [kind |-> "Identifier", slice |-> NameOf((i + 1) \div 3)]
                          ELSE K("Semicolon")]

ConstantsSources ==
    {NumberStatements(n) : n \in ConstantCounts} \cup {GlobalStatements(n) : n \in ConstantCounts}

NextConstants ==
    \/ FileStart(ConstantsSources)
    \/ ParseStatement
    \/ ParseFinish
    \/ Step

SpecConstants == Init /\ [][NextConstants]_vars

(***************************************************************************)
(* Files  let x = 1; { let a; ... let a; let x = 2; print x; } print x;    *)
(* with n declarations of a before the inner x, for n = 0, 1 and around    *)
(* the capacity of Locals.                                                 *)
(***************************************************************************)
ShadowCounts == {0, 1, MaxLets - 2, MaxLets - 1}

ShadowSource(n) ==
    LetStmt("x", <<Num("1")>>)
        \o Block([i \in 1..(3 * n) |-> IF i % 3 = 1 THEN K("Let")
                                       ELSE IF i % 3 = 2 THEN Id("a")
                                       ELSE K("Semicolon")]
                 \o LetStmt("x", <<Num("2")>>) \o PrintStmt(<<Id("x")>>))
        \o PrintStmt(<<Id("x")>>)

ShadowSources == {ShadowSource(n) : n \in ShadowCounts}

NextShadow ==
    \/ FileStart(ShadowSources)
    \/ ParseStatement
    \/ ParseBlockClose
    \/ ParseFinish
    \/ Step

SpecShadow == Init /\ [][NextShadow]_vars

(***************************************************************************)
(* Files  if C { print 1; } [else { print 2; }] print 3;  for the literal  *)
(* conditions C below, at the top level or, after `let y = 1;`, in a       *)
(* block.                                                                  *)
(***************************************************************************)
Conditions ==
    {<<K("True")>>, <<K("False")>>, <<K("Nil")>>, <<Num("0")>>, <<Num("2")>>, <<Str("a")>>}

BranchSource(wrap, cond, els) ==
    LET body == IfStmt(cond, PrintStmt(<<Num("1")>>),
                       IF els THEN Some(PrintStmt(<<Num("2")>>)) ELSE None)
                    \o PrintStmt(<<Num("3")>>)
    IN IF wrap THEN Block(LetStmt("y", <<Num("1")>>) \o body) ELSE body

BranchSources ==
    {BranchSource(wrap, cond, els) : wrap \in BOOLEAN, cond \in Conditions, els \in BOOLEAN}

NextBranch ==
    \/ FileStart(BranchSources)
    \/ ParseStatement
    \/ ParseBlockClose
    \/ ParseFinish
    \/ Step

SpecBranch == Init /\ [][NextBranch]_vars

(***************************************************************************)
(* REPL sessions of up to MaxSessionLines lines over the globals x and y:  *)
(* lines that define, assign and print them, a line with a parse error,    *)
(* and a line that binds y and then fails at run time.                     *)
(***************************************************************************)
MaxSessionLines == 3

\* let x = 1;   x = 2;   print x;   print y;   print 1 +
\* let y = 2; print 1 + "a";
SessionSources ==
    { LetStmt("x", <<Num("1")>>),
      ExprStmt(AssignTo("x", <<Num("2")>>)),
      PrintStmt(<<Id("x")>>),
      PrintStmt(<<Id("y")>>),
      <<K("Print"), Num("1"), K("Add")>>,
      LetStmt("y", <<Num("2")>>) \o PrintStmt(<<Num("1"), K("Add"), Str("a")>>) }

NextSession ==
    \/ ReplLine(SessionSources, MaxSessionLines)
    \/ ReplEnd
    \/ ParseStatement
    \/ ParseFinish
    \/ Step

SpecSession == Init /\ [][NextSession]_vars

(***************************************************************************)
(* Files `print S1 + S2;` and `print S1 + S2 == S3;` over the string       *)
(* literals below.                                                         *)
(***************************************************************************)
\* the token of the string literal with the contents chars
StrLit(chars) == [kind |-> "String", slice |-> <<"\"">> \o chars \o <<"\"">>]

Contents ==
    {<<>>, <<"a">>, <<"b">>, <<"a", "b">>, <<"f", "o", "o">>, <<"b", "a", "r">>,
     <<"f", "o", "o", "b", "a", "r">>}

ConcatSource(s1, s2) == PrintStmt(<<StrLit(s1), K("Add"), StrLit(s2)>>)
ConcatEqualSource(s1, s2, s3) ==
    PrintStmt(<<StrLit(s1), K("Add"), StrLit(s2), K("Eq"), StrLit(s3)>>)

ConcatSources ==
    {ConcatSource(s1, s2) : s1, s2 \in Contents}
        \cup {ConcatEqualSource(s1, s2, s3) : s1, s2, s3 \in Contents}

NextConcat ==
    \/ FileStart(ConcatSources)
    \/ ParseStatement
    \/ ParseFinish
    \/ Step

SpecConcat == Init /\ [][NextConcat]_vars

(***************************************************************************)
(* Files of two `;`-terminated statements that each contain a parse error. *)
(***************************************************************************)
\* print 1 + ;   1 = 2;   let = 1;   print 1 let x;   print return;
ErrorStatements ==
    { PrintStmt(<<Num("1"), K("Add")>>),
      ExprStmt(<<Num("1"), K("Assign"), Num("2")>>),
      <<K("Let"), K("Assign"), Num("1")>> \o Semi,
      <<K("Print"), Num("1"), K("Let"), Id("x")>> \o Semi,
      PrintStmt(<<K("Return")>>) }

ErrorPairSources == {e1 \o e2 : e1, e2 \in ErrorStatements}

NextErrors ==
    \/ FileStart(ErrorPairSources)
    \/ ParseStatement
    \/ ParseFinish

SpecErrors == Init /\ [][NextErrors]_vars

(***************************************************************************)
(* emit_jump and patch_jump on their own, as the `if` arm of               *)
(* Parser::statement uses them: the code of a condition, emit_jump(instr), *)
(* the code the jump is to skip, patch_jump(offset, size()), and the final *)
(* RETURN; then the run of the chunk.  The skipped code has the lengths of *)
(* Distances, around the limits of one and of two operand bytes; it begins *)
(* with a RETURN, where a JUMP_F that is not taken stops.                  *)
(***************************************************************************)
Distances == {0, 1, 2, U8 - 1, U8, U8 + 1, U16 - 1, U16, U16 + 1}

\* the opcodes of the conditions nil, false, true
ConditionCodes == {OP_NIL, OP_FALSE, OP_TRUE}

SkippedCode(distance) == [i \in 1..distance |-> IF i = 1 THEN OP_RETURN ELSE OP_NIL]

\* the pending jump: the operand offset emit_jump returned
Pending == frames[1].jmp

\* the condition and emit_jump(instr), followed by the code to skip
JumpEmit ==
    /\ mode = "file" /\ at = "start"
    /\ \E cond \in ConditionCodes, instr \in {OP_JUMP, OP_JUMP_F}, distance \in Distances :
           \E j \in {emit_jump(Emit(P, cond), instr)} :
               /\ code' = EmitAll(j.p, SkippedCode(distance)).code
               /\ frames' = <<Frame("Then", j.offset, size(j.p.code))>>
    /\ at' = "parse"
    /\ UNCHANGED <<overflow_checks, mode, parser, errors, heap, vm, run, stdout, reports,
                   exit_code, lines, notes, obs, interned>>

\* patch_jump(offset, size()); on Ok the RETURN of parse_source and the VM,
\* on Err the error is returned and reported
JumpPatch ==
    /\ at = "parse" /\ frames # <<>> /\ errors = <<>>
    /\ \E r \in {patch_jump(P, Pending, size(code))} :
           IF r.err = None
           THEN /\ code' = push_code(r.p.code, OP_RETURN)
                /\ vm' = VM_init
                /\ run' = "KeepGoing"
                /\ at' = "run"
                /\ UNCHANGED <<errors, reports, exit_code>>
           ELSE /\ code' = r.p.code
                /\ errors' = <<r.err[1]>>
                /\ reports' = reports \o <<r.err[1]>>
                /\ Return
                /\ UNCHANGED <<vm, run>>
    /\ UNCHANGED <<overflow_checks, mode, parser, frames, heap, stdout, lines, notes, obs,
                   interned>>

NextJump ==
    \/ JumpEmit
    \/ JumpPatch
    \/ Step

SpecJump == Init /\ [][NextJump]_vars

(***************************************************************************)
(* VM::init and VM::run on chunks that no compiler made: the code that     *)
(* pushes some values, then an arbitrary byte followed by up to two        *)
(* arbitrary operand bytes, then an ending.  The pool holds a number and   *)
(* two strings; the heap holds the two strings, the first bound as a       *)
(* global.                                                                 *)
(***************************************************************************)
ChunkHeap ==
    put_as_global(intern_string(intern_string(ObjectHeap_new, <<"a">>).heap, <<"b">>).heap,
                  1, Number(1))

ChunkConstants == <<Number(2), Object(1), Object(2)>>

\* the code that leaves on the stack: nothing; nil; true, false; 2; 2, 2;
\* "a"; "a", "b"; 2, true
ChunkPrefixes ==
    { <<>>,
      <<OP_NIL>>,
      <<OP_TRUE, OP_FALSE>>,
      <<OP_CONSTANT, 0>>,
      <<OP_CONSTANT, 0, OP_CONSTANT, 0>>,
      <<OP_CONSTANT, 1>>,
      <<OP_CONSTANT, 1, OP_CONSTANT, 2>>,
      <<OP_CONSTANT, 0, OP_TRUE>> }

\* every opcode, and two bytes that are none
ChunkBytes == (OP_RETURN..(OP_JUMP_F + 1)) \cup {U8 - 1}

OperandValues == {0, 1, 3, U8 - 1}

ChunkOperands ==
    {<<>>} \cup {<<a>> : a \in OperandValues} \cup {<<a, b>> : a, b \in OperandValues}

ChunkEndings == {<<>>, <<OP_RETURN>>, <<OP_POP, OP_RETURN>>}

Chunks ==
    { [CodeChunk_new EXCEPT !.code = prefix \o <<byte>> \o operands \o ending,
                            !.constants = ChunkConstants] :
        prefix \in ChunkPrefixes, byte \in ChunkBytes, operands \in ChunkOperands,
        ending \in ChunkEndings }

\* VM::init(&code, &mut heap) on one of the chunks, with the heap h
LoadChunkFrom(chunks, h) ==
    /\ mode = "file" /\ at = "start"
    /\ code' \in chunks
    /\ heap' = h
    /\ vm' = VM_init
    /\ run' = "KeepGoing"
    /\ at' = "run"
    /\ UNCHANGED <<overflow_checks, parser, frames, errors, stdout, reports, exit_code,
                   lines, notes, obs, interned, mode>>

LoadChunk == LoadChunkFrom(Chunks, ChunkHeap)

NextChunk ==
    \/ LoadChunk
    \/ Step

\* the loop of VM::run goes on for as long as step returns KeepGoing
SpecChunk == Init /\ [][NextChunk]_vars /\ WF_vars(Step)

(***************************************************************************)
(* Hand-built chunks for the order of the operands: two constants and a    *)
(* binary opcode, and the chunk of tests::vm_test (vm.rs 297-329) with     *)
(* its three constants drawn from TestNumbers.                             *)
(***************************************************************************)
BinaryOpcodes ==
    {OP_ADD, OP_SUB, OP_MUL, OP_DIV, OP_AND, OP_OR, OP_EQUAL, OP_LESS, OP_GREATER}

\* Object(1) and Object(2) are the strings "a" and "b" of ChunkHeap
OperandPool ==
    {Number(1), Number(3), F64(-1, 2), Bool(TRUE), Bool(FALSE), Nil, Object(1), Object(2)}

OperandChunks ==
    { [CodeChunk_new EXCEPT !.code = <<OP_CONSTANT, 0, OP_CONSTANT, 1, op, OP_RETURN>>,
                            !.constants = <<a, b>>] :
        a \in OperandPool, b \in OperandPool, op \in BinaryOpcodes }

\* 1.2, 3.4 and 5.6, and a zero
TestNumbers == {F64(6, 5), F64(17, 5), F64(28, 5), Number(0)}

VmTestCode ==
    <<OP_CONSTANT, 0, OP_CONSTANT, 1, OP_ADD, OP_CONSTANT, 2, OP_DIV, OP_NEG, OP_RETURN>>

VmTestChunks ==
    { [code |-> VmTestCode, constants |-> <<c0, c1, c2>>,
       span_info |-> << <<0, 0>>, <<0, 1>>, <<5, 2>> >>] :
        c0 \in TestNumbers, c1 \in TestNumbers, c2 \in TestNumbers }

LoadOperandChunk == LoadChunkFrom(OperandChunks \cup VmTestChunks, ChunkHeap)

NextOperands ==
    \/ LoadOperandChunk
    \/ Step

SpecOperands == Init /\ [][NextOperands]_vars

(***************************************************************************)
(* Files over `&&` and `||` whose right operand assigns or fails:          *)
(*   let x; print A OP (x = B);    print A OP -true;    print A OP y;      *)
(***************************************************************************)
LogicalTokens == {"And", "Or"}

EagerOperands == {<<K("True")>>, <<K("False")>>, <<K("Nil")>>, <<Num("1")>>}

EagerAssignSource(a, op, b) ==
    LetStmt("x", <<>>)
        \o PrintStmt(a \o <<K(op), K("ParenOpen")>> \o AssignTo("x", b) \o <<K("ParenClose")>>)

EagerNegSource(a, op) == PrintStmt(a \o <<K(op), K("Sub"), K("True")>>)

EagerUnboundSource(a, op) == PrintStmt(a \o <<K(op), Id("y")>>)

EagerAssignSources ==
    {EagerAssignSource(a, op, b) : a \in EagerOperands, b \in EagerOperands,
                                   op \in LogicalTokens}

EagerFailingSources ==
    {EagerNegSource(a, op) : a \in EagerOperands, op \in LogicalTokens}
        \cup {EagerUnboundSource(a, op) : a \in EagerOperands, op \in LogicalTokens}

NextEager ==
    \/ FileStart(EagerAssignSources \cup EagerFailingSources)
    \/ ParseStatement
    \/ ParseFinish
    \/ Step

SpecEager == Init /\ [][NextEager]_vars

(***************************************************************************)
(* Files `print a OP b;` for OP one of != >= <= over number expressions    *)
(* from -inf to inf, and `print !v;` for the literals v.  A number         *)
(* expression comes with its rank on the number line.                      *)
(***************************************************************************)
NumberLine ==
    << [e |-> <<K("Sub"), Num("1"), K("Div"), Num("0")>>, rank |-> 1],
       [e |-> <<K("Sub"), Num("1")>>, rank |-> 2],
       [e |-> <<Num("0")>>, rank |-> 3],
       [e |-> <<Num("1"), K("Div"), Num("2")>>, rank |-> 4],
       [e |-> <<Num("1")>>, rank |-> 5],
       [e |-> <<Num("2"), K("Div"), Num("2")>>, rank |-> 5],
       [e |-> <<Num("2")>>, rank |-> 6],
       [e |-> <<Num("1"), K("Div"), Num("0")>>, rank |-> 7] >>

DerivedTokens == {"Neq", "Geq", "Leq"}

CompareSource(i, op, j) == PrintStmt(NumberLine[i].e \o <<K(op)>> \o NumberLine[j].e)

CompareSources ==
    {CompareSource(i, op, j) : i \in DOMAIN NumberLine, j \in DOMAIN NumberLine,
                               op \in DerivedTokens}

NotSources == {PrintStmt(<<K("Not")>> \o v) : v \in Operands}

NextCompare ==
    \/ FileStart(CompareSources \cup NotSources)
    \/ ParseStatement
    \/ ParseFinish
    \/ Step

SpecCompare == Init /\ [][NextCompare]_vars

(***************************************************************************)
(* The public interface of CodeChunk called in any order on a new chunk:   *)
(* push_code, push_constant, push_span_info and patch.                     *)
(***************************************************************************)
MaxCodeLen == 3
MaxSpans == 4
MaxPool == 1

SpanBytes == {OP_RETURN, OP_NIL}
SpanRanges == {1, 2}

CallPushCode ==
    /\ mode = "file" /\ at = "start"
    /\ size(code) < MaxCodeLen
    /\ \E byte \in SpanBytes : code' = push_code(code, byte)
    /\ UNCHANGED <<overflow_checks, mode, at, parser, frames, errors, heap, vm, run, stdout,
                   reports, exit_code, lines, notes, obs, interned>>

CallPushConstant ==
    /\ mode = "file" /\ at = "start"
    /\ Len(code.constants) < MaxPool
    /\ code' = push_constant(code, Nil).chunk
    /\ UNCHANGED <<overflow_checks, mode, at, parser, frames, errors, heap, vm, run, stdout,
                   reports, exit_code, lines, notes, obs, interned>>

CallPushSpanInfo ==
    /\ mode = "file" /\ at = "start"
    /\ Len(code.span_info) < MaxSpans
    /\ \E sp \in SpanRanges : code' = push_span_info(code, sp)
    /\ UNCHANGED <<overflow_checks, mode, at, parser, frames, errors, heap, vm, run, stdout,
                   reports, exit_code, lines, notes, obs, interned>>

\* self.code[offset] = code panics outside the code
CallPatch ==
    /\ mode = "file" /\ at = "start"
    /\ \E offset \in 0..MaxCodeLen, byte \in SpanBytes :
           IF offset < size(code)
           THEN code' = patch(code, offset, byte) /\ UNCHANGED <<at, exit_code>>
           ELSE at' = "exit" /\ exit_code' = Some(101) /\ UNCHANGED code
    /\ UNCHANGED <<overflow_checks, mode, parser, frames, errors, heap, vm, run, stdout,
                   reports, lines, notes, obs, interned>>

NextSpans ==
    \/ CallPushCode
    \/ CallPushConstant
    \/ CallPushSpanInfo
    \/ CallPatch

SpecSpans == Init /\ [][NextSpans]_vars

(***************************************************************************)
(* Files of n nested blocks with a local in the outermost and in the       *)
(* innermost one,  { let a; { { ... let b; ... } } },  for n = 1, 2 and    *)
(* around the capacity of the u8 depth of Locals, and files whose blocks   *)
(* hold a parse error.                                                     *)
(***************************************************************************)
NestDepths == {1, 2, U8 - 1, U8}

NestSource(n) ==
    <<K("BraceOpen")>> \o LetStmt("a", <<>>)
        \o [i \in 1..(n - 1) |-> K("BraceOpen")]
        \o LetStmt("b", <<>>)
        \o [i \in 1..n |-> K("BraceClose")]

\* { let a; print ; let b; { let c; } }
\* { let a; { let b = ; } let c; }
\* { let a; { let b; let = 1; { let c; } print b; } }
NestErrorSources ==
    { Block(LetStmt("a", <<>>) \o PrintStmt(<<>>) \o LetStmt("b", <<>>)
                \o Block(LetStmt("c", <<>>))),
      Block(LetStmt("a", <<>>) \o Block(<<K("Let"), Id("b"), K("Assign")>> \o Semi)
                \o LetStmt("c", <<>>)),
      Block(LetStmt("a", <<>>)
                \o Block(LetStmt("b", <<>>) \o <<K("Let"), K("Assign"), Num("1")>> \o Semi
                             \o Block(LetStmt("c", <<>>)) \o PrintStmt(<<Id("b")>>))) }

NestSources == {NestSource(n) : n \in NestDepths} \cup NestErrorSources

NextNest ==
    \/ FileStart(NestSources)
    \/ ParseStatement
    \/ ParseBlockClose
    \/ ParseFinish
    \/ Step

SpecNest == Init /\ [][NextNest]_vars

(***************************************************************************)
(* The Lexer on its own, as tests::peek_test drives it: peek() and next()  *)
(* called in any order, each result printed.  stdout holds one entry       *)
(* [call, token] per call.                                                 *)
(***************************************************************************)
MaxCalls == 6

\* prefixes of the lexemes of peek_test's source  arg bar 70.9 % $$
LexSources ==
    { <<>>,
      <<Id("arg")>>,
      <<Id("arg"), Id("bar")>>,
      <<Id("arg"), Id("bar"), Num("70.9"), K("Rem"), K("Error"), K("Error")>> }

LexStart ==
    /\ at = "start"
    /\ \E source \in LexSources :
           parser' = [lexer |-> Lexer_lex(source), locals |-> Locals_new]
    /\ at' = "lex"
    /\ UNCHANGED <<overflow_checks, mode, frames, errors, code, heap, vm, run, stdout,
                   reports, exit_code, lines, notes, obs, interned>>

\* println!("{:?}", lex.peek())
LexPeek ==
    /\ at = "lex"
    /\ Len(stdout) < MaxCalls
    /\ parser' = [parser EXCEPT !.lexer = peek(parser.lexer).lexer]
    /\ stdout' = Append(stdout, [call |-> "peek", token |-> peek(parser.lexer).token])
    /\ UNCHANGED <<overflow_checks, mode, at, frames, errors, code, heap, vm, run,
                   reports, exit_code, lines, notes, obs, interned>>

\* println!("{:?}", lex.next())
LexNext ==
    /\ at = "lex"
    /\ Len(stdout) < MaxCalls
    /\ parser' = [parser EXCEPT !.lexer = next(parser.lexer).lexer]
    /\ stdout' = Append(stdout, [call |-> "next", token |-> next(parser.lexer).token])
    /\ UNCHANGED <<overflow_checks, mode, at, frames, errors, code, heap, vm, run,
                   reports, exit_code, lines, notes, obs, interned>>

NextLexer ==
    \/ LexStart
    \/ LexPeek
    \/ LexNext

SpecLexer == Init /\ [][NextLexer]_vars

(***************************************************************************)
(* The ObjectHeap under intern_string and alloc_object called in any       *)
(* order.  interned notes every call: for alloc_object the contents of     *)
(* the String object and the key returned.                                 *)
(***************************************************************************)
AllocStrings == {<<"a">>, <<"a", "b">>}

HeapAlloc ==
    /\ \E contents \in AllocStrings :
           \E r \in {alloc_object(heap, [String |-> contents])} :
               /\ Len(r.heap.heap) <= MaxObjects
               /\ heap' = r.heap
               /\ interned' = interned \cup {[call |-> "alloc_object", string |-> contents,
                                              key |-> r.key, again |-> FALSE]}
    /\ UNCHANGED <<overflow_checks, mode, at, parser, frames, errors, code, vm, run,
                   stdout, reports, exit_code, lines, notes, obs>>

NextAccounting ==
    \/ HeapIntern
    \/ HeapAlloc

SpecAccounting == Init /\ [][NextAccounting]_vars

(***************************************************************************)
(* Properties                                                              *)
(***************************************************************************)
\* the source text being compiled or run
Source == parser.lexer.source

\* the VM is about to execute the instruction op
AtOp(op) == at = "run" /\ get_byte(code, vm.pc) = Some(op)

\* the operand byte of the instruction the VM is about to execute
Operand == code.code[vm.pc + 2]

\* the key of the identifier constant that operand names
OperandKey == code.constants[Operand + 1].key

\* the top of the value stack
Top == vm.stack[Len(vm.stack)]

\* the value of a literal initialiser in heap h (nil where there is none)
ValueOf(init, h) ==
    IF init = <<>> THEN Nil
    ELSE IF init[1].kind = "Number" THEN parse_f64(init[1].slice)
    ELSE IF init[1].kind = "True" THEN Bool(TRUE)
    ELSE IF init[1].kind = "Nil" THEN Nil
    ELSE Object(h.interner[SubSeq(init[1].slice, 2, Len(init[1].slice) - 1)])

\* what the global named name is bound to in heap h
GlobalNamed(name, h) ==
    IF <<name>> \in DOMAIN h.interner THEN get_global(h, h.interner[<<name>>]) ELSE None

\* C1: in a run of a compiled program, when execution has reached the end
\* of a block it entered (a block statement, or the then or else body of an
\* if), the depth of the value stack is the depth it had on entering the
\* block.
C1_LocalsCleanup ==
    at = "run" =>
        \A b \in DOMAIN obs.entry :
            notes.blocks[b].exit = vm.pc => Len(vm.stack) = obs.entry[b]

\* C2: in a run of a compiled program, a GET_LOCAL or SET_LOCAL about to
\* execute has a slot below the height of the value stack, and the cell at
\* that slot holds the local the compiler resolved the identifier to.
C2_LocalSlotValidity ==
    at = "run" =>
        \A u \in DOMAIN notes.uses :
            notes.uses[u].at = vm.pc =>
                /\ Operand < Len(vm.stack)
                /\ obs.cells[Operand + 1] = notes.uses[u].decl

\* C3: a program that compiled without error and ran to RETURN halts with
\* an empty value stack, whatever the number of `let` declarations in its
\* block.
C3_EmptyStackAtReturn == run = "Halt" => vm.stack = <<>>

\* C4: when a statement has failed and parse_source goes on to parse a
\* statement again, the failed statement and the recovery loop have
\* consumed at least one token.
C4_RecoveryConsumes ==
    [][(/\ at = "parse" /\ at' = "parse"
        /\ Len(errors') > Len(errors)
        /\ peek(parser'.lexer).token # None)
       => Consumed(parser'.lexer) > Consumed(parser.lexer)]_vars

\* C5: a VM is created only when parse_source has finished without an
\* error, on the chunk with RETURN appended; when parse_source finishes
\* with errors, it appends nothing to the chunk, the errors are reported,
\* and nothing is executed: no VM is created or stepped and nothing is
\* printed.
C5_NoExecutionAfterParseError ==
    [][/\ at' = "run" => errors' = <<>>
       /\ (at # "run" /\ at' = "run") =>
              /\ at = "parse" /\ errors = <<>>
              /\ code' = push_code(code, OP_RETURN)
              /\ vm' = VM_init
       /\ (at = "parse" /\ errors # <<>>) =>
              /\ at' # "run"
              /\ vm' = vm /\ run' = run /\ stdout' = stdout
              /\ at' # "parse" => code' = code /\ reports' = reports \o errors]_vars

C5_Witness ==
    /\ mode = "file" /\ at = "exit"
    /\ errors # <<>> /\ reports = errors
    /\ OP_RETURN \notin {code.code[i] : i \in DOMAIN code.code}
    /\ run = "NotRun" /\ vm = VM_init

\* C6: in file mode the process exits with status 0 when compilation and
\* execution both succeeded, and with a non-zero status when a parse error
\* or a runtime error was reported.
C6_FileExitStatus ==
    (mode = "file" /\ at = "exit") =>
        /\ (errors = <<>> /\ run = "Halt") => exit_code = Some(0)
        /\ reports # <<>> => exit_code # Some(0)

\* C7: every key intern_string has returned resolves through get_object to
\* a String with the contents it was called with; two calls returned the
\* same key exactly when their contents were equal; and a further call with
\* the same contents returns the same key and leaves the heap as it is.
C7_Interning ==
    /\ \A e \in interned : get_object(heap, e.key) = Some([String |-> e.string])
    /\ \A e1, e2 \in interned : (e1.string = e2.string) <=> (e1.key = e2.key)
    /\ \A e \in interned : intern_string(heap, e.string) = [heap |-> heap, key |-> e.key]

C7_Witness ==
    /\ \E e \in interned : e.again
    /\ \E e \in interned : Len(e.string) = MaxStringLen
    /\ \E e1, e2 \in interned : e1.string # e2.string
    /\ heap.globals # <<>>

\* C8: DEF_GLOBAL binds the name to the popped top of the stack and keeps
\* going, whether or not the name was bound; so a run of
\* `let x = e1; let x = e2;`, or of `let x = e2;` on a heap where x may be
\* bound, halts with x bound to the value of e2 (nil for `let x;`).
C8_GlobalRedeclaration ==
    [][/\ AtOp(OP_DEF_GLOBAL) =>
              /\ run' = "KeepGoing"
              /\ heap'.globals = MapInsert(heap.globals, OperandKey, Top)
              /\ vm'.stack = SubSeq(vm.stack, 1, Len(vm.stack) - 1)
       /\ (at = "run" /\ run' = "Halt") =>
              \A e1, e2 \in Inits :
                  (Source = LetStmt("x", e1) \o LetStmt("x", e2) \/ Source = LetStmt("x", e2))
                      => GlobalNamed("x", heap') = Some(ValueOf(e2, heap'))]_vars

C8_Witness ==
    /\ mode = "file" /\ at = "exit" /\ run = "Halt"
    /\ Source = LetStmt("x", <<Num("1")>>) \o LetStmt("x", <<Num("2")>>)
    /\ GlobalNamed("x", heap) = Some(Number(2))

\* C9: SET_GLOBAL of an unbound name fails with GlobalVariableNotFound and
\* leaves the heap (so the globals table) and the value stack as they were;
\* SET_GLOBAL of a bound name rebinds it to the top of the stack and leaves
\* the stack as it was.
C9_SetGlobal ==
    [][AtOp(OP_SET_GLOBAL) =>
           IF OperandKey \notin DOMAIN heap.globals
           THEN /\ run' = "GlobalVariableNotFound"
                /\ heap' = heap
                /\ vm'.stack = vm.stack
           ELSE /\ run' = "KeepGoing"
                /\ heap'.globals = MapInsert(heap.globals, OperandKey, Top)
                /\ vm'.stack = vm.stack]_vars

C9_Witness ==
    /\ mode = "file" /\ at = "exit"
    /\ run = "GlobalVariableNotFound"
    /\ vm.pc >= 2 /\ code.code[vm.pc - 1] = OP_SET_GLOBAL
    /\ vm.stack # <<>>
    /\ code.constants[code.code[vm.pc] + 1].key \notin DOMAIN heap.globals

\* C10: GET_GLOBAL of an unbound name fails with GlobalVariableNotFound,
\* leaving heap, stack and output as they were, and GET_GLOBAL of a bound
\* name pushes the value it is bound to; so `print y;`, y never declared,
\* compiles without error and its run ends with that error, nothing
\* printed and the globals table unchanged.
C10_UndefinedGlobalRead ==
    [][/\ AtOp(OP_GET_GLOBAL) =>
              IF OperandKey \notin DOMAIN heap.globals
              THEN /\ run' = "GlobalVariableNotFound"
                   /\ heap' = heap /\ vm'.stack = vm.stack /\ stdout' = stdout
              ELSE /\ run' = "KeepGoing"
                   /\ heap' = heap
                   /\ vm'.stack = Append(vm.stack, heap.globals[OperandKey])
       /\ (Source = PrintStmt(<<Id("y")>>) /\ at = "parse" /\ at' # "parse") =>
              at' = "run" /\ errors = <<>>
       /\ (Source = PrintStmt(<<Id("y")>>) /\ at = "run") =>
              /\ heap'.globals = heap.globals /\ stdout' = stdout
              /\ at' # "run" =>
                     /\ run' = "GlobalVariableNotFound"
                     /\ reports' = Append(reports, [msg |-> "GlobalVariableNotFound",
                                                    span |-> current_span(vm', code)])]_vars

C10_Witness ==
    /\ mode = "file" /\ at = "exit"
    /\ Source = PrintStmt(<<Id("y")>>)
    /\ run = "GlobalVariableNotFound"
    /\ vm.pc >= 2 /\ code.code[vm.pc - 1] = OP_GET_GLOBAL
    /\ stdout = <<>> /\ reports # <<>>

\* the value under the top of the value stack
Under == vm.stack[Len(vm.stack) - 1]

\* the top of the value stack after the step
TopAfter == vm'.stack[Len(vm'.stack)]

\* C11: EQUAL on two values of different variants pushes Bool(false) and
\* does not fail; on two values of the same variant it pushes Bool of their
\* equality (numbers and booleans by value, objects by key, nil = nil).
C11_EqualAcrossVariants ==
    [][AtOp(OP_EQUAL) /\ Len(vm.stack) >= 2 =>
           /\ run' = "KeepGoing"
           /\ Len(vm'.stack) = Len(vm.stack) - 1
           /\ TopAfter = Bool(Under.t = Top.t /\ Under = Top)]_vars

\* the operands op accepts: a is the left (or only) operand, b the right
Accepts(op, a, b) ==
    IF op \in {OP_SUB, OP_MUL, OP_DIV, OP_LESS, OP_GREATER}
    THEN a.t = "Number" /\ b.t = "Number"
    ELSE IF op = OP_ADD
    THEN (a.t = "Number" /\ b.t = "Number") \/ (a.t = "Object" /\ b.t = "Object")
    ELSE IF op \in {OP_AND, OP_OR} THEN a.t = "Bool" /\ b.t = "Bool"
    ELSE a.t = "Number"

\* C12: SUB, MUL, DIV, LESS, GREATER on operands that are not both numbers,
\* ADD on operands that are neither both numbers nor both strings, AND, OR
\* on operands that are not both booleans, and NEG on a value that is not a
\* number stop the VM with UnSupportedOperation, the operands popped and
\* nothing pushed; on operands of the required types they do not fail and
\* push one result.
C12_OperatorTypeRules ==
    [][/\ \A op \in {OP_ADD, OP_SUB, OP_MUL, OP_DIV, OP_AND, OP_OR, OP_LESS, OP_GREATER} :
              AtOp(op) /\ Len(vm.stack) >= 2 =>
                  IF Accepts(op, Under, Top)
                  THEN /\ run' = "KeepGoing"
                       /\ Len(vm'.stack) = Len(vm.stack) - 1
                  ELSE /\ run' = "UnSupportedOperation"
                       /\ vm'.stack = SubSeq(vm.stack, 1, Len(vm.stack) - 2)
       /\ AtOp(OP_NEG) /\ Len(vm.stack) >= 1 =>
              IF Accepts(OP_NEG, Top, Top)
              THEN /\ run' = "KeepGoing"
                   /\ Len(vm'.stack) = Len(vm.stack)
              ELSE /\ run' = "UnSupportedOperation"
                   /\ vm'.stack = SubSeq(vm.stack, 1, Len(vm.stack) - 1)]_vars

\* `print true and nil;` has stopped at its AND, and nothing was printed
C12_Witness ==
    /\ mode = "file" /\ at = "exit"
    /\ Source = PrintStmt(<<K("True"), K("And"), K("Nil")>>)
    /\ run = "UnSupportedOperation"
    /\ code.code[vm.pc] = OP_AND
    /\ vm.stack = <<>> /\ stdout = <<>>

\* the kinds of the tokens whose code begins with (or is) the opcode op
OperatorTokens(op) ==
    IF op = OP_ADD THEN {"Add"}
    ELSE IF op = OP_SUB THEN {"Sub"}
    ELSE IF op = OP_MUL THEN {"Mul"}
    ELSE IF op = OP_DIV THEN {"Div"}
    ELSE IF op = OP_EQUAL THEN {"Eq", "Neq"}
    ELSE IF op = OP_GREATER THEN {"Gr", "Leq"}
    ELSE IF op = OP_LESS THEN {"Le", "Geq"}
    ELSE IF op = OP_AND THEN {"And"}
    ELSE IF op = OP_OR THEN {"Or"}
    ELSE IF op = OP_NEG THEN {"Sub"}
    ELSE {"Not"}

\* the span of the runtime error reported last (a token's position in the
\* source), after the step
ReportedSpanAfter == reports'[Len(reports')].span[1][2]

\* C13: when an operator of a compiled program fails at run time, the span
\* reported with the error is the position of a token of that operator in
\* the source (so not of an operand or of another token); for
\* `print 1 + "a";` it is the position of `+`.
C13_RuntimeErrorLocation ==
    [][/\ \A op \in {OP_ADD, OP_SUB, OP_MUL, OP_DIV, OP_EQUAL, OP_GREATER, OP_LESS,
                     OP_AND, OP_OR, OP_NEG, OP_NOT} :
              AtOp(op) /\ run' = "UnSupportedOperation" =>
                  /\ Len(reports') = Len(reports) + 1
                  /\ ReportedSpanAfter \in DOMAIN Source
                  /\ Source[ReportedSpanAfter].kind \in OperatorTokens(op)
       /\ Source = PrintStmt(<<Num("1"), K("Add"), Str("a")>>)
              /\ at = "run" /\ run' = "UnSupportedOperation" =>
                  ReportedSpanAfter = 3]_vars

\* `print 1 + 2 * "a";` has stopped at its MUL with the span of `*`
C13_Witness ==
    /\ mode = "file" /\ at = "exit"
    /\ Source = PrintStmt(<<Num("1"), K("Add"), Num("2"), K("Mul"), Str("a")>>)
    /\ run = "UnSupportedOperation"
    /\ code.code[vm.pc] = OP_MUL
    /\ reports[Len(reports)].span[1][2] = 5

\* C14: a source whose `=` has a left side that is not a bare identifier at
\* the top of an expression (`a + b = 3;`, `-a = 3;`, `1 = 2;`) is rejected
\* with the error "Invalid left side of assignment", and nothing of it is
\* executed.
C14_InvalidAssignmentTargets ==
    Source \in InvalidTargetSources =>
        /\ run = "NotRun"
        /\ at = "exit" =>
               /\ errors # <<>>
               /\ errors[1].msg = "Invalid left side of assignment"

\* C16: parse_source on `(1 + 5) - - - (8 - 2)` (no `;`) returns Ok, and
\* the run of the chunk returns Ok.
C16_ParseTest ==
    Source = ParseTestSource /\ at = "exit" => errors = <<>> /\ run = "Halt"

\* C15: for `print E;`, E an expression over number literals, parentheses,
\* unary `-` and the binary arithmetic and comparison operators, the run
\* prints the value of E grouped by the precedence table (unary tighter
\* than multiplicative, than additive, than comparison; binary operators
\* left-associative), or stops with the error of the operator that fails.
C15_Precedence ==
    at = "exit" =>
        \A c \in PrecCases :
            Source = PrintStmt(c.tokens) =>
                IF Eval(c.tree).ok = "Ok"
                THEN /\ run = "Halt"
                     /\ stdout = <<print_with_heap(Eval(c.tree).value, heap).text>>
                ELSE /\ run = Eval(c.tree).ok
                     /\ stdout = <<>>

\* the constant the k-th statement of a file of ConstantsSources adds, and
\* the place in the code (an index of code.code) of the operand of the
\* instruction that names it
ConstantOf(k) ==
    IF Source[1].kind = "Number" THEN Number(DigitValue(DigitOf(k)[1]))
    ELSE Object(heap.interner[NameOf(k)])

OperandPlaceOf(k) == IF Source[1].kind = "Number" THEN 3 * k - 1 ELSE 3 * k

\* C17: the k-th constant pushed, 1 <= k <= 256, has index k - 1 and
\* get_constant(k - 1) returns it; a pool of more than 256 constants is
\* never run: the push of the 257th ends the compilation (a panic, exit
\* status 101) and nothing of the program is executed.
C17_ConstantPoolLimit ==
    /\ Len(code.constants) > U8 =>
           /\ at \in {"parse", "exit"}
           /\ run = "NotRun"
           /\ at = "exit" => exit_code = Some(101)
    /\ at = "run" =>
           \A k \in 1..Len(code.constants) :
               /\ code.code[OperandPlaceOf(k)] = k - 1
               /\ get_constant(code, k - 1) = Some(ConstantOf(k))
    /\ at = "exit" /\ Len(code.constants) <= U8 =>
           /\ exit_code = Some(0)
           /\ run = "Halt"

\* a file of 256 constants has compiled and has run to its RETURN
C17_Witness ==
    /\ mode = "file" /\ at = "exit"
    /\ Len(code.constants) = U8
    /\ run = "Halt" /\ exit_code = Some(0)
    /\ get_constant(code, U8 - 1) = Some(ConstantOf(U8))

\* C18: the overflow of the constant pool is a parse error like the
\* others: no panic, parse_source returns its errors, a ParsingError for
\* the overflow among them, and they are reported.
C18_ConstantPoolOverflowError ==
    Len(code.constants) > U8 =>
        /\ exit_code # Some(101)
        /\ at = "exit" => errors # <<>> /\ reports = errors

\* C19: in `let x = 1; { ...; let x = 2; print x; } print x;` the inner
\* `let x` creates a local and no global: `print x` in the block prints 2,
\* `print x` after the block prints 1, and the global x is 1 throughout
\* (nil before its definition has run) and the only global.
C19_LexicalScoping ==
    Source \in ShadowSources =>
        /\ at = "run" =>
               /\ DOMAIN heap.globals \subseteq {heap.interner[<<"x">>]}
               /\ GlobalNamed("x", heap) \in {None, Some(Number(1))}
        /\ at = "exit" =>
               /\ run = "Halt"
               /\ stdout = <<<<"2">>, <<"1">>>>

\* the then-block of the `if` of a file of BranchSources, as the compiler
\* noted it: its code is [entry, exit), the JUMP over the else part follows
\* it, and that JUMP is followed by the POP and the code of the else part
ThenBlock == notes.blocks[1]

\* what the file prints: 1 or 2 (or nothing) by the condition, then 3
BranchOutput(cond, els) ==
    (IF cond[1].kind \notin {"Nil", "False"} THEN <<<<"1">>>>
     ELSE IF els THEN <<<<"2">>>> ELSE <<>>) \o <<<<"3">>>>

C20_BranchStates ==
    \A wrap \in BOOLEAN, cond \in Conditions, els \in BOOLEAN :
        Source = BranchSource(wrap, cond, els) =>
            /\ at = "run" /\ vm.pc \in {ThenBlock.entry, ThenBlock.exit + 4} =>
                   Len(vm.stack) = IF wrap THEN 1 ELSE 0
            /\ at = "exit" => run = "Halt" /\ stdout = BranchOutput(cond, els)

C20_BranchSteps ==
    AtOp(OP_JUMP_F) /\ vm.stack # <<>> =>
        /\ run' = "KeepGoing"
        /\ vm'.stack = vm.stack
        /\ get_byte(code, vm'.pc) = Some(OP_POP)
        /\ vm'.pc = IF is_falsey(Top) THEN ThenBlock.exit + 3 ELSE ThenBlock.entry - 1

\* C20: for `if C { T } else { E }` the VM runs T and not E when the value
\* of C is neither nil nor false (0 and strings included), and E and not T
\* (nothing without an else) otherwise; JUMP_F leaves the stack as it is
\* and lands on a POP, before T or before the else part, so the first
\* instruction of the chosen branch runs with the condition popped.
C20_IfStatement == []C20_BranchStates /\ [][C20_BranchSteps]_vars

\* `if 0 { print 1; } else { print 2; } print 3;` has printed 1 and 3
C20_Witness ==
    /\ mode = "file" /\ at = "exit"
    /\ Source = BranchSource(FALSE, <<Num("0")>>, TRUE)
    /\ stdout = <<<<"1">>, <<"3">>>>

\* the names (strings) that are bound as globals in heap h
BoundNames(h) == {s \in DOMAIN h.interner : h.interner[s] \in DOMAIN h.globals}

\* C21: in a REPL session every step keeps every bound global bound, under
\* the same key for its name, and changes its value only by a DEF_GLOBAL or
\* SET_GLOBAL of that name; a reading of a line leaves the heap as it is;
\* so after any earlier lines, failed ones included, the line `print x;`
\* (`print y;`) run while the name is bound halts having printed the value
\* the name is bound to, and SET_GLOBAL of a bound name rebinds it.
C21_ReplPersistence ==
    [][mode = "repl" =>
           /\ \A s \in BoundNames(heap) :
                  /\ s \in BoundNames(heap')
                  /\ heap'.interner[s] = heap.interner[s]
                  /\ heap'.globals[heap.interner[s]] # heap.globals[heap.interner[s]] =>
                         /\ AtOp(OP_DEF_GLOBAL) \/ AtOp(OP_SET_GLOBAL)
                         /\ OperandKey = heap.interner[s]
           /\ at = "start" /\ at' = "parse" => heap' = heap
           /\ \A name \in {"x", "y"} :
                  Source = PrintStmt(<<Id(name)>>) /\ <<name>> \in BoundNames(heap) =>
                      /\ AtOp(OP_PRINT) =>
                             stdout' = Append(stdout,
                                              print_with_heap(GlobalNamed(name, heap)[1], heap).text)
                      /\ at = "run" /\ at' = "start" => run' = "Halt"
           /\ AtOp(OP_SET_GLOBAL) /\ OperandKey \in DOMAIN heap.globals =>
                  /\ run' = "KeepGoing"
                  /\ heap'.globals[OperandKey] = Top]_vars

\* a session `let y = 2; print 1 + "a";` (fails at run time), `print 1 +`
\* (fails to parse), `print y;`: the third line has printed 2
C21_Witness ==
    /\ mode = "repl" /\ at = "start" /\ lines = 3
    /\ Source = PrintStmt(<<Id("y")>>)
    /\ run = "Halt"
    /\ stdout = <<<<"2">>>>
    /\ Len(reports) = 2
    /\ reports[1].msg = "UnSupportedOperation"
    /\ reports[2].msg # "UnSupportedOperation"

\* the contents of the concatenation ADD is about to make of the two
\* strings on top of the stack
Joined == heap.heap[Under.key].String \o heap.heap[Top.key].String

\* the keys of the objects of heap h that hold the string contents
KeysOf(contents, h) == {k \in DOMAIN h.heap : h.heap[k] = [String |-> contents]}

C22_AddSteps ==
    AtOp(OP_ADD) /\ Len(vm.stack) >= 2 /\ Under.t = "Object" /\ Top.t = "Object" =>
        /\ run' = "KeepGoing"
        /\ vm'.stack = Append(SubSeq(vm.stack, 1, Len(vm.stack) - 2), TopAfter)
        /\ TopAfter.t = "Object"
        /\ KeysOf(Joined, heap') = {TopAfter.key}
        /\ heap'.interner[Joined] = TopAfter.key
        /\ \A k \in DOMAIN heap.heap : heap'.heap[k] = heap.heap[k]
        /\ Len(heap'.heap) = Len(heap.heap) + (IF KeysOf(Joined, heap) = {} THEN 1 ELSE 0)

C22_Outputs ==
    at = "exit" =>
        \A s1, s2 \in Contents :
            /\ Source = ConcatSource(s1, s2) => run = "Halt" /\ stdout = <<s1 \o s2>>
            /\ \A s3 \in Contents :
                   Source = ConcatEqualSource(s1, s2, s3) =>
                       /\ run = "Halt"
                       /\ stdout = <<Display(Bool(s1 \o s2 = s3))>>

\* C22: ADD on two strings pushes the key of the one object that holds the
\* left contents followed by the right contents, which is the key the
\* interner has for them; the objects the heap held are unchanged, and the
\* heap grows (by one object) only when no object held those contents; so
\* `print S1 + S2;` prints the concatenation and `print S1 + S2 == S3;`
\* prints true exactly when S3 is the concatenation
\* (`"foo" + "bar" == "foobar"` is true).
C22_StringConcatenation == []C22_Outputs /\ [][C22_AddSteps]_vars

\* `print "foo" + "bar" == "foobar";` has printed true, its ADD having
\* allocated nothing: the heap holds the three literals only
C22_Witness ==
    /\ mode = "file" /\ at = "exit"
    /\ Source = ConcatEqualSource(<<"f", "o", "o">>, <<"b", "a", "r">>,
                                  <<"f", "o", "o", "b", "a", "r">>)
    /\ stdout = <<<<"t", "r", "u", "e">>>>
    /\ Len(heap.heap) = 3

\* C23: for a source of two `;`-terminated statements that each contain a
\* parse error, the i-th error recorded lies in the i-th statement, and
\* parse_source returns the two errors, which are reported and nothing is
\* run.
C23_ErrorAccumulation ==
    \A e1, e2 \in ErrorStatements :
        Source = e1 \o e2 =>
            /\ Len(errors) >= 1 => errors[1].span \in 1..Len(e1)
            /\ Len(errors) >= 2 => errors[2].span \in (Len(e1) + 1)..(Len(e1) + Len(e2))
            /\ at = "exit" => Len(errors) = 2 /\ reports = errors /\ run = "NotRun"

\* the target the pending jump was patched to: the offset of the RETURN
\* that ends the chunk
Target == size(code) - 1

C24_PatchedOperand ==
    at = "run" /\ frames # <<>> =>
        /\ code.code[Pending + 1] \in 0..(U8 - 1)
        /\ code.code[Pending + 2] \in 0..(U8 - 1)
        /\ code.code[Pending + 1] * U8 + code.code[Pending + 2] = Target - Pending - 2

C24_JumpSteps ==
    at = "run" /\ frames # <<>> /\ vm.pc = Pending - 1 =>
        /\ AtOp(OP_JUMP) => run' = "KeepGoing" /\ vm'.pc = Target
        /\ AtOp(OP_JUMP_F) =>
               /\ run' = "KeepGoing"
               /\ vm'.stack = vm.stack
               /\ vm'.pc = IF is_falsey(Top) THEN Target ELSE Pending + 2

\* C24: after emit_jump has returned the operand offset o and
\* patch_jump(o, t) has succeeded, the bytes at o and o + 1 are the high
\* and the low byte of t - o - 2; the JUMP, and the JUMP_F on a falsey top
\* of stack, leave pc = t, and the JUMP_F on a truthy one leaves
\* pc = o + 2.
C24_JumpRoundTrip == []C24_PatchedOperand /\ [][C24_JumpSteps]_vars

\* a JUMP_F over 256 bytes, patched to the operand bytes 1, 0, has been
\* taken on nil: the run halted at the RETURN it was patched to
C24_Witness ==
    /\ mode = "file" /\ at = "exit" /\ frames # <<>> /\ errors = <<>>
    /\ code.code[Pending] = OP_JUMP_F
    /\ code.code[Pending + 1] = 1 /\ code.code[Pending + 2] = 0
    /\ run = "Halt" /\ vm.pc = size(code)
    /\ vm.stack = <<Nil>>

\* the distance patch_jump is about to compute: the chunk ends at the
\* target
PendingDistance == size(code) - Pending - 2

\* C25: patch_jump(offset, target) fails with the parse error
\* "Jump too long", the bytes of the chunk left as they were, exactly when
\* target - offset - 2 is more than 65535; for every smaller distance it
\* succeeds and the two operand bytes hold the distance itself.
C25_JumpRangeCheck ==
    [][at = "parse" /\ frames # <<>> /\ errors = <<>> =>
           IF PendingDistance > U16 - 1
           THEN /\ Len(errors') = 1 /\ errors'[1].msg = "Jump too long"
                /\ code' = code
                /\ at' # "run" /\ run' = run
           ELSE /\ errors' = <<>>
                /\ at' = "run"
                /\ code'.code[Pending + 1] * U8 + code'.code[Pending + 2] = PendingDistance
                /\ \A i \in 1..Len(code.code) :
                       i \notin {Pending + 1, Pending + 2} => code'.code[i] = code.code[i]]_vars

\* a jump over 65536 bytes was refused, its placeholder bytes left in place
C25_Witness ==
    /\ mode = "file" /\ at = "exit" /\ frames # <<>>
    /\ PendingDistance = U16
    /\ Len(errors) = 1 /\ errors[1].msg = "Jump too long"
    /\ code.code[Pending + 1] = 255 /\ code.code[Pending + 2] = 255
    /\ run = "NotRun"

\* the offsets of the instructions of chunk c from offset on, each found
\* after the operand bytes of the one before
RECURSIVE InstructionsFrom(_, _)
InstructionsFrom(c, offset) ==
    IF offset >= size(c) THEN {}
    ELSE {offset} \cup InstructionsFrom(c, offset + 1 + OperandBytes(c.code[offset + 1]))

\* the instruction of c at offset o is well formed (starts is the set of
\* the instruction offsets of c)
WellFormedAt(c, h, starts, o) ==
    /\ c.code[o + 1] \in OP_RETURN..OP_JUMP_F
    /\ o + OperandBytes(c.code[o + 1]) < size(c)
    /\ c.code[o + 1] = OP_RETURN => o = size(c) - 1
    /\ c.code[o + 1] \in {OP_JUMP, OP_JUMP_F} =>
           o + 3 + c.code[o + 2] * U8 + c.code[o + 3] \in starts
    /\ c.code[o + 1] \in {OP_CONSTANT, OP_DEF_GLOBAL, OP_GET_GLOBAL, OP_SET_GLOBAL} =>
           c.code[o + 2] < Len(c.constants)
    /\ c.code[o + 1] \in {OP_DEF_GLOBAL, OP_GET_GLOBAL, OP_SET_GLOBAL} =>
           /\ c.constants[c.code[o + 2] + 1].t = "Object"
           /\ get_object(h, c.constants[c.code[o + 2] + 1].key) # None

WellFormed(c, h) ==
    /\ size(c) >= 1
    /\ c.code[size(c)] = OP_RETURN
    /\ size(c) - 1 \in InstructionsFrom(c, 0)
    /\ \A o \in InstructionsFrom(c, 0) : WellFormedAt(c, h, InstructionsFrom(c, 0), o)

\* C26: the chunk of a parse_source that returned Ok ends with its only
\* RETURN instruction; the target of every jump is the offset of an
\* instruction of the chunk (so at or before the RETURN); the operand of
\* every CONSTANT, DEF_GLOBAL, GET_GLOBAL and SET_GLOBAL is the index of a
\* constant, for the last three of a string object of the heap; and no run
\* ends with UnexpectedEnd, UnknownCode, ConstantNotFound or
\* ConstantNotIdentifier.
C26_WellFormedOutput ==
    /\ [](run \notin {"UnexpectedEnd", "UnknownCode", "ConstantNotFound",
                      "ConstantNotIdentifier"})
    /\ [][at = "parse" /\ at' = "run" => WellFormed(code', heap')]_vars

\* a file with an if, an else, a global and a constant has compiled to a
\* well-formed chunk and has run to its RETURN
C26_Witness ==
    /\ mode = "file" /\ at = "exit" /\ run = "Halt"
    /\ WellFormed(code, heap)
    /\ \E j, g, k \in InstructionsFrom(code, 0) :
           /\ code.code[j + 1] = OP_JUMP /\ code.code[j + 2] * U8 + code.code[j + 3] > 0
           /\ code.code[g + 1] = OP_GET_GLOBAL
           /\ code.code[k + 1] = OP_CONSTANT

\* the number of `let` statements in the block of a file of LetsSources
LetsDeclared == (Len(Source) - 2) \div 3

\* C27: when the block `{ let a; ... let a; }` of n declarations is left,
\* the code emitted for the exit is n POPs, one per declaration, and the
\* entries of the scope are gone from Locals, for every n (255, 256 and 257
\* included).
C27_ScopeExitPopCount ==
    [][(/\ at = "parse" /\ frames # <<>>
        /\ at' = "parse" /\ frames' = <<>> /\ errors' = errors)
       => /\ code'.code = code.code \o [i \in 1..LetsDeclared |-> OP_POP]
          /\ parser'.locals.stack = <<>>]_vars

\* the names of the values of RuntimeError
RuntimeErrors ==
    {"UnexpectedEnd", "UnknownCode", "ConstantNotFound", "ConstantNotIdentifier",
     "EmptyStack", "UnSupportedOperation", "GlobalVariableNotFound", "ObjectNotFound"}

C28_RunSteps ==
    at = "run" =>
        /\ vm'.pc > vm.pc
        /\ run' \in {"KeepGoing", "Halt"} \cup RuntimeErrors
        /\ run' = "Halt" => get_byte(code, vm.pc) = Some(OP_RETURN)
        /\ vm.pc >= size(code) => run' = "UnexpectedEnd"

\* C28: on every chunk every step of VM::run leaves pc greater than it
\* was, and returns KeepGoing, Halt (at a RETURN) or a runtime error,
\* UnexpectedEnd when pc has passed the end of the code; and every run
\* ends.
C28_VMTermination == [][C28_RunSteps]_vars /\ ((at = "run") ~> (at = "exit"))

\* the byte the VM is about to read as an opcode, as an Option
Opcode == get_byte(code, vm.pc)

\* the operand bytes of the instruction the VM is about to execute are in
\* the code
OperandsPresent == vm.pc + OperandBytes(Opcode[1]) < size(code)

\* C29: a step on any chunk returns; it does not panic.  It returns
\* UnexpectedEnd when the opcode or one of its operand bytes is past the
\* end of the code, UnknownCode for a byte that is no opcode,
\* ConstantNotFound for a constant operand that is no index of the pool,
\* ConstantNotIdentifier for a DEF_GLOBAL, GET_GLOBAL or SET_GLOBAL whose
\* constant is not an object, and EmptyStack for a pop or a peek of the
\* top on an empty stack and for a slot that is not below the height of
\* the stack.
C29_VMErrorTotality ==
    [][at = "run" =>
           /\ run' # "panic"
           /\ Opcode = None => run' = "UnexpectedEnd"
           /\ Opcode # None =>
                  /\ Opcode[1] \notin OP_RETURN..OP_JUMP_F => run' = "UnknownCode"
                  /\ Opcode[1] \in OP_RETURN..OP_JUMP_F /\ ~OperandsPresent =>
                         run' = "UnexpectedEnd"
                  /\ Opcode[1] \in OP_RETURN..OP_JUMP_F /\ OperandsPresent =>
                         /\ (/\ Opcode[1] \in {OP_CONSTANT, OP_DEF_GLOBAL, OP_GET_GLOBAL,
                                               OP_SET_GLOBAL}
                             /\ get_constant(code, Operand) = None)
                                => run' = "ConstantNotFound"
                         /\ (/\ Opcode[1] \in {OP_DEF_GLOBAL, OP_GET_GLOBAL, OP_SET_GLOBAL}
                             /\ get_constant(code, Operand) # None
                             /\ get_constant(code, Operand)[1].t # "Object")
                                => run' = "ConstantNotIdentifier"
                         /\ (/\ Opcode[1] \in {OP_POP, OP_PRINT, OP_NEG, OP_NOT, OP_JUMP_F,
                                               OP_SET_LOCAL}
                             /\ vm.stack = <<>>)
                                => run' = "EmptyStack"
                         /\ (/\ Opcode[1] \in {OP_ADD, OP_SUB, OP_MUL, OP_DIV, OP_AND, OP_OR,
                                               OP_EQUAL, OP_LESS, OP_GREATER}
                             /\ Len(vm.stack) < 2)
                                => run' = "EmptyStack"
                         /\ (/\ Opcode[1] \in {OP_DEF_GLOBAL, OP_SET_GLOBAL}
                             /\ get_constant(code, Operand) # None
                             /\ get_constant(code, Operand)[1].t = "Object"
                             /\ vm.stack = <<>>)
                                => run' \in {"EmptyStack", "GlobalVariableNotFound"}
                         /\ (/\ Opcode[1] \in {OP_GET_LOCAL, OP_SET_LOCAL}
                             /\ Operand >= Len(vm.stack))
                                => run' = "EmptyStack"]_vars

\* the opcodes by the change of the height of the value stack
Pushing == {OP_CONSTANT, OP_NIL, OP_TRUE, OP_FALSE, OP_GET_GLOBAL, OP_GET_LOCAL}

Popping == {OP_POP, OP_PRINT, OP_DEF_GLOBAL}

Binary == {OP_ADD, OP_SUB, OP_MUL, OP_DIV, OP_AND, OP_OR, OP_EQUAL, OP_LESS, OP_GREATER}

Unary == {OP_NEG, OP_NOT}

Keeping == {OP_SET_GLOBAL, OP_JUMP, OP_JUMP_F, OP_RETURN}

\* the cells 1..n of the stack are the same after the step
CellsKept(n) == SubSeq(vm'.stack, 1, n) = SubSeq(vm.stack, 1, n)

C30_StackEffect(op) ==
    /\ op \in Pushing =>
           /\ Len(vm'.stack) = Len(vm.stack) + 1
           /\ CellsKept(Len(vm.stack))
    /\ op \in Popping => vm'.stack = SubSeq(vm.stack, 1, Len(vm.stack) - 1)
    /\ op \in Binary =>
           /\ Len(vm'.stack) = Len(vm.stack) - 1
           /\ CellsKept(Len(vm.stack) - 2)
    /\ op \in Unary =>
           /\ Len(vm'.stack) = Len(vm.stack)
           /\ CellsKept(Len(vm.stack) - 1)
    /\ op \in Keeping => vm'.stack = vm.stack
    /\ op = OP_SET_LOCAL =>
           /\ Len(vm'.stack) = Len(vm.stack)
           /\ \A i \in 1..Len(vm.stack) :
                  vm'.stack[i] = IF i = Operand + 1 THEN vm.stack[Len(vm.stack)]
                                 ELSE vm.stack[i]

\* C30: a step that completes without error (KeepGoing or Halt) changes
\* the height of the value stack by +1 for CONSTANT, NIL, TRUE, FALSE,
\* GET_GLOBAL and GET_LOCAL, by -1 for POP, PRINT, DEF_GLOBAL and the nine
\* binary opcodes, and by 0 for NEG, NOT, SET_GLOBAL, SET_LOCAL, JUMP,
\* JUMP_F and RETURN; the cells below the popped and pushed ones, and for
\* SET_LOCAL every cell but the addressed one, keep their values.
C30_PerOpcodeStackEffect ==
    [][(at = "run" /\ run' \in {"KeepGoing", "Halt"}) =>
           /\ Opcode # None /\ Opcode[1] \in OP_RETURN..OP_JUMP_F
           /\ C30_StackEffect(Opcode[1])]_vars

\* the chunk CONSTANT 0, TRUE, SET_LOCAL 0, POP, RETURN has run to its
\* RETURN: slot 0 holds the value SET_LOCAL copied from the top, and the
\* POP left the height at one
C30_Witness ==
    /\ mode = "file" /\ at = "exit" /\ run = "Halt"
    /\ code.code = <<OP_CONSTANT, 0, OP_TRUE, OP_SET_LOCAL, 0, OP_POP, OP_RETURN>>
    /\ vm.stack = <<Bool(TRUE)>>

\* the contents of the string object v in heap h
StringOf(v, h) == h.heap[v.key].String

\* a op b for two finite numbers, by cross-multiplication
C31_NumberResult(op, a, b, result) ==
    /\ op = OP_SUB => result = F64(a.n * b.d - b.n * a.d, a.d * b.d)
    /\ op = OP_DIV /\ b.n # 0 => result = F64(a.n * b.d, a.d * b.n)
    /\ op = OP_LESS => result = Bool(a.n * b.d < b.n * a.d)
    /\ op = OP_GREATER => result = Bool(a.n * b.d > b.n * a.d)

\* the step of a binary opcode that completes pushes a op b, where a is the
\* value below the top and b the top
C31_BinarySteps ==
    \A op \in BinaryOpcodes :
        (AtOp(op) /\ Len(vm.stack) >= 2 /\ run' = "KeepGoing") =>
            /\ vm'.stack[Len(vm'.stack)] =
                   bin_op_method(op, vm.stack[Len(vm.stack) - 1], Top, heap).value
            /\ (vm.stack[Len(vm.stack) - 1].t = "Number" /\ Top.t = "Number") =>
                   C31_NumberResult(op, vm.stack[Len(vm.stack) - 1], Top,
                                    vm'.stack[Len(vm'.stack)])
            /\ (op = OP_ADD /\ vm.stack[Len(vm.stack) - 1].t = "Object") =>
                   StringOf(vm'.stack[Len(vm'.stack)], heap') =
                       StringOf(vm.stack[Len(vm.stack) - 1], heap) \o StringOf(Top, heap)

\* the chunk of vm_test has run to its end
C31_VmTestEnded == mode = "file" /\ at = "exit" /\ code.code = VmTestCode

\* C31: every binary opcode takes the value pushed first for its left
\* operand a and the value pushed last for its right operand b and pushes
\* a op b: SUB, DIV, LESS, GREATER and the ADD of strings are not mirrored.
\* The chunk CONSTANT, CONSTANT, ADD, CONSTANT, DIV, NEG, RETURN runs to Ok
\* (Halt) with -((c0 + c1) / c2) alone on the stack.
C31_OperandOrder ==
    /\ [][C31_BinarySteps]_vars
    /\ [](C31_VmTestEnded =>
              /\ run = "Halt"
              /\ exit_code = Some(0)
              /\ vm.stack = <<f64_neg(f64_div(f64_add(code.constants[1], code.constants[2]),
                                              code.constants[3]))>>)

\* vm_test with 1.2, 3.4 and 5.6 has ended with -23/28 on the stack
C31_Witness ==
    /\ C31_VmTestEnded
    /\ code.constants = <<F64(6, 5), F64(17, 5), F64(28, 5)>>
    /\ vm.stack = <<F64(-23, 28)>>

\* the value of the literal token true, false, nil or 1
EagerValue(tok) ==
    IF tok.kind = "True" THEN Bool(TRUE)
    ELSE IF tok.kind = "False" THEN Bool(FALSE)
    ELSE IF tok.kind = "Nil" THEN Nil
    ELSE parse_f64(tok.slice)

\* the file has run to its end (Halt or a runtime error)
C32_Ended == mode = "file" /\ at = "exit" /\ exit_code # Some(101) /\ errors = <<>>

\* AND and OR find both operands on the stack, complete exactly when both
\* are Bool and fail with UnSupportedOperation otherwise
C32_LogicalSteps ==
    \A op \in {OP_AND, OP_OR} :
        AtOp(op) =>
            /\ Len(vm.stack) >= 2
            /\ IF vm.stack[Len(vm.stack) - 1].t = "Bool" /\ Top.t = "Bool"
               THEN /\ run' = "KeepGoing"
                    /\ vm'.stack[Len(vm'.stack)] =
                           Bool(IF op = OP_AND THEN vm.stack[Len(vm.stack) - 1].b /\ Top.b
                                ELSE vm.stack[Len(vm.stack) - 1].b \/ Top.b)
               ELSE run' = UnSupportedOperation

\* C32: `a && b` and `a || b` execute the code of a, then that of b, and
\* only then AND or OR.  An assignment in b has taken effect whatever a is;
\* a runtime error in b ends the run whatever a is; and AND/OR fails with
\* UnSupportedOperation unless both values are Bool.
C32_EagerLogicalOperators ==
    /\ [][C32_LogicalSteps]_vars
    /\ [](C32_Ended /\ Source \in EagerAssignSources =>
              /\ GlobalNamed("x", heap) = Some(EagerValue(Source[10]))
              /\ IF EagerValue(Source[5]).t = "Bool" /\ EagerValue(Source[10]).t = "Bool"
                 THEN run = "Halt" /\ Len(stdout) = 1
                 ELSE run = UnSupportedOperation /\ stdout = <<>>)
    /\ [](C32_Ended /\ Source \in EagerFailingSources =>
              /\ stdout = <<>>
              /\ run = (IF Source[4].kind = "Sub" THEN UnSupportedOperation
                        ELSE "GlobalVariableNotFound")
              /\ get_byte(code, vm.pc) \in {Some(OP_AND), Some(OP_OR)})

\* `let x; print false && (x = true);` has printed false after x was set
C32_Witness ==
    /\ C32_Ended
    /\ Source = EagerAssignSource(<<K("False")>>, "And", <<K("True")>>)
    /\ run = "Halt"
    /\ GlobalNamed("x", heap) = Some(Bool(TRUE))
    /\ stdout = <<print_with_heap(Bool(FALSE), heap).text>>

\* the truth of `a OP b` for numbers of ranks ra and rb
Derived(op, ra, rb) ==
    IF op = "Neq" THEN ra # rb ELSE IF op = "Geq" THEN ra >= rb ELSE ra <= rb

\* NOT on a Bool, on Nil and on anything else; EQUAL, LESS and GREATER that
\* complete leave a Bool
C33_NotSteps ==
    /\ AtOp(OP_NOT) /\ vm.stack # <<>> =>
           IF Top.t = "Bool"
           THEN run' = "KeepGoing" /\ vm'.stack = [vm.stack EXCEPT ![Len(vm.stack)] = Bool(~Top.b)]
           ELSE IF Top.t = "Nil"
           THEN run' = "KeepGoing" /\ vm'.stack = [vm.stack EXCEPT ![Len(vm.stack)] = Bool(TRUE)]
           ELSE run' = UnSupportedOperation
    /\ \A op \in {OP_EQUAL, OP_LESS, OP_GREATER} :
           AtOp(op) /\ run' = "KeepGoing" => vm'.stack[Len(vm'.stack)].t = "Bool"

\* the file has been compiled and has run to its end
C33_Ended == mode = "file" /\ at = "exit" /\ exit_code # Some(101) /\ errors = <<>>

\* C33: NOT maps Bool(b) to Bool(!b) and Nil to Bool(true) and fails with
\* UnSupportedOperation on a Number and on an Object; for all numbers a, b
\* the compiled `a != b`, `a >= b`, `a <= b` print true exactly when
\* a # b, a >= b, a <= b, and the NOT after EQUAL, LESS or GREATER does
\* not fail.
C33_DerivedComparisons ==
    /\ [][C33_NotSteps]_vars
    /\ [](C33_Ended =>
              \A i \in DOMAIN NumberLine, j \in DOMAIN NumberLine, op \in DerivedTokens :
                  Source = CompareSource(i, op, j) =>
                      /\ run = "Halt"
                      /\ stdout = <<Display(Bool(Derived(op, NumberLine[i].rank,
                                                         NumberLine[j].rank)))>>)

\* `print 1 >= 2 / 2;` has printed true
C33_Witness ==
    /\ C33_Ended
    /\ Source = CompareSource(5, "Geq", 6)
    /\ run = "Halt"
    /\ stdout = <<Display(Bool(TRUE))>>

\* the entries of the span table at or before the code offset off
EntriesUpTo(off) == {i \in 1..Len(code.span_info) : code.span_info[i][1] <= off}

\* the entry appended last among them
LastEntryUpTo(off) ==
    code.span_info[CHOOSE i \in EntriesUpTo(off) : \A j \in EntriesUpTo(off) : j <= i]

\* C34: after any sequence of push_code, push_constant, push_span_info and
\* patch the span table starts with the sentinel (0, 0..0) and is sorted by
\* non-decreasing code offset, and for every offset from 0 on, past the end
\* of the code included, find_span_of does not underflow and returns the
\* entry appended last among those whose code offset is at most the offset.
C34_SpanTable ==
    /\ Len(code.span_info) >= 1
    /\ code.span_info[1] = <<0, 0>>
    /\ \A i, j \in 1..Len(code.span_info) :
           i <= j => code.span_info[i][1] <= code.span_info[j][1]
    /\ \A off \in 0..(MaxCodeLen + 2) :
           /\ find_span_of(code, off) # None
           /\ find_span_of(code, off) = Some(LastEntryUpTo(off))

\* two entries were appended at offset 1 and one at offset 3, after a patch:
\* the lookup of offset 2 gives the second of the two
C34_Witness ==
    /\ mode = "file" /\ at = "start"
    /\ code.code = <<OP_NIL, OP_RETURN, OP_RETURN>>
    /\ code.span_info = << <<0, 0>>, <<1, 1>>, <<1, 2>>, <<3, 1>> >>
    /\ find_span_of(code, 2) = Some(<<1, 2>>)
    /\ find_span_of(code, 4) = Some(<<3, 1>>)

\* the entries of Locals of the compilation
Entries == parser.locals.stack

\* the compilation has returned Ok
CompiledOk == at = "run" \/ (at = "exit" /\ run # "NotRun")

\* C35: during a compilation, one that meets parse errors included, the
\* entries of Locals are in non-decreasing order of scope depth, the depth
\* of every entry is between 1 and the current depth, the list is empty
\* whenever the current depth is 0, and a compilation that returns Ok ends
\* with depth 0 and an empty list.
C35_LocalsInvariant ==
    mode = "file" /\ exit_code # Some(101) =>
        /\ \A i, j \in 1..Len(Entries) : i <= j => Entries[i][2] <= Entries[j][2]
        /\ \A i \in 1..Len(Entries) :
               1 <= Entries[i][2] /\ Entries[i][2] <= parser.locals.depth
        /\ parser.locals.depth = 0 => Entries = <<>>
        /\ CompiledOk => parser.locals.depth = 0 /\ Entries = <<>>

\* the k-th token of the source, None from the end of the input on
TokenAt(k) == IF k <= Len(Source) THEN Some(Source[k].kind) ELSE None

\* the number of next() calls among the first i - 1 calls
NextsBefore(i) == Cardinality({j \in 1..(i - 1) : stdout[j].call = "next"})

\* C37: peek() is idempotent and does not advance: consecutive peeks return
\* the same token, the next() after them returns that token, the tokens
\* that successive next() calls return are the tokens of the source in
\* order whether or not peeks are interleaved, and from the end of the
\* input on both peek() and next() return None on every call.  Every call,
\* peek or next, returns the token that follows those the earlier next()
\* calls returned.
C37_LexerLookahead ==
    at = "lex" => \A i \in 1..Len(stdout) : stdout[i].token = TokenAt(NextsBefore(i) + 1)

\* on the source `arg bar`: peek, peek, next (arg), next (bar), peek (None),
\* next (None)
C37_Witness ==
    /\ at = "lex"
    /\ Source = <<Id("arg"), Id("bar")>>
    /\ [i \in 1..Len(stdout) |-> stdout[i].call]
           = <<"peek", "peek", "next", "next", "peek", "next">>
    /\ [i \in 1..Len(stdout) |-> stdout[i].token]
           = <<Some("Identifier"), Some("Identifier"), Some("Identifier"),
               Some("Identifier"), None, None>>

\* the contents intern_string was called with, and the alloc_object calls
InternedContents == {e.string : e \in {c \in interned : c.call = "intern_string"}}

AllocCalls == {e \in interned : e.call = "alloc_object"}

\* the sum of the lengths of the strings of a set of strings
RECURSIVE TotalLen(_)
TotalLen(strings) ==
    IF strings = {} THEN 0
    ELSE LET s == CHOOSE x \in strings : TRUE
         IN Len(s) + TotalLen(strings \ {s})

\* the sum of the lengths of the contents of a set of noted calls
RECURSIVE TotalLenOfCalls(_)
TotalLenOfCalls(calls) ==
    IF calls = {} THEN 0
    ELSE LET c == CHOOSE x \in calls : TRUE
         IN Len(c.string) + TotalLenOfCalls(calls \ {c})

C38_Counts ==
    /\ live_count(heap) = Cardinality(InternedContents) + Cardinality(AllocCalls)
    /\ dynamic_memory_used(heap) = TotalLen(InternedContents) + TotalLenOfCalls(AllocCalls)
    /\ \A s \in InternedContents :
           /\ live_count(intern_string(heap, s).heap) = live_count(heap)
           /\ dynamic_memory_used(intern_string(heap, s).heap) = dynamic_memory_used(heap)

\* C38: after any sequence of intern_string and alloc_object calls,
\* live_count is the number of objects ever allocated, one per distinct
\* interned contents and one per alloc_object call, dynamic_memory_used is
\* the sum of the lengths of their strings, neither ever decreases, and
\* interning contents already present changes neither.
C38_HeapAccounting ==
    /\ []C38_Counts
    /\ [][/\ live_count(heap') >= live_count(heap)
          /\ dynamic_memory_used(heap') >= dynamic_memory_used(heap)]_vars

\* "a" was interned twice and allocated once, "ab" was allocated: three
\* objects and four bytes
C38_Witness ==
    /\ \E e \in interned : e.call = "intern_string" /\ e.string = <<"a">> /\ e.again
    /\ \E e \in AllocCalls : e.string = <<"a">>
    /\ \E e \in AllocCalls : e.string = <<"a", "b">>
    /\ live_count(heap) = 3
    /\ dynamic_memory_used(heap) = 4

\* a step of the compiler leaves the global bindings and the objects of
\* the heap as they are and adds nothing but interned strings; it does not
\* touch the VM
C36_CompileSteps ==
    at = "parse" =>
        /\ heap'.globals = heap.globals
        /\ Len(heap'.heap) >= Len(heap.heap)
        /\ SubSeq(heap'.heap, 1, Len(heap.heap)) = heap.heap
        /\ \A s \in DOMAIN heap.interner :
               s \in DOMAIN heap'.interner /\ heap'.interner[s] = heap.interner[s]
        /\ \A k \in (Len(heap.heap) + 1)..Len(heap'.heap) :
               /\ heap'.heap[k].String \in DOMAIN heap'.interner
               /\ heap'.interner[heap'.heap[k].String] = k
        /\ at' = "parse" => vm' = vm /\ run' = run /\ stdout' = stdout
        /\ at' = "run" => vm' = VM_init /\ errors = <<>>

\* a step of the VM leaves the chunk and the compiler as they are, and the
\* run returns before another compilation begins
C36_RunSteps ==
    at = "run" =>
        /\ code' = code
        /\ parser' = parser
        /\ errors' = errors
        /\ at' \in {"run", "start", "exit"}

\* C36: a compilation, whether it succeeds or fails, never adds, removes
\* or changes a global binding, and its only effect on the heap is the
\* interning of strings; a running VM never changes its chunk (code bytes,
\* constants, span table); and the compile and run phases on a shared heap
\* alternate without overlapping.
C36_PhaseIsolation == [][C36_CompileSteps /\ C36_RunSteps]_vars

\* the second line of a REPL session, `let x = "a";`, has been compiled on
\* the heap where the first line bound x to 1, and is running
C36_Witness ==
    /\ mode = "repl" /\ lines = 2 /\ at = "run"
    /\ Source = LetStmt("x", <<Str("a")>>)
    /\ GlobalNamed("x", heap) = Some(Number(1))
    /\ <<"a">> \in DOMAIN heap.interner
    /\ code.code # <<>>

====
